---- MODULE Spec2Model ----
(***************************************************************************)
(* Event ingestion, deduplication and aggregation pipeline of              *)
(* campaign-analytics: the Kafka worker loop, the event processor, the     *)
(* ClickHouse tables campaign_events / campaign_insights with their        *)
(* materialized view, the re-aggregation query and the insights cache.     *)
(***************************************************************************)
EXTENDS Integers, Sequences, FiniteSets, TLC

----------------------------------------------------------------------------
(* Bounds of the model *)

\* disturbances the environment injects in one run: a failing store, redis or
\* kafka call, an expiring deduplication key, a restart of the worker process
MaxFaults == 2
\* value of the wall clock (seconds) at which the clock stops advancing
MaxClock == 2
\* TriggerReaggregation calls of one run
MaxReagg == 2

----------------------------------------------------------------------------
(* Time. event_time and the query bounds are DateTime values; a day has    *)
(* TicksPerDay instants, the first of which is midnight. 0 is Go's zero    *)
(* time.Time.                                                              *)

TicksPerDay == 2
ZeroTime == 0
Midnight(day) == day * TicksPerDay
\* toDate(event_time)
toDate(t) == t \div TicksPerDay

NilUUID == "00000000"
CampA == "c1"
CampB == "c2"

----------------------------------------------------------------------------
(* Messages of the topic: the JSON payloads a producer published. *)

RawEvent(id, camp, plat, typ, imp, clk, conv, spend, rev, t, region, cur, key, recv) ==
    [ id |-> id, campaignId |-> camp, platform |-> plat, eventType |-> typ,
      impressions |-> imp, clicks |-> clk, conversions |-> conv,
      spend |-> spend, revenue |-> rev, eventTime |-> t, region |-> region,
      currency |-> cur, deduplicationKey |-> key, receivedAt |-> recv,
      processedAt |-> ZeroTime ]

\* {campaign=C1, platform=meta, date=day 1 00:00, 1000/50/50/100}
EvA == RawEvent("u1", CampA, "meta", "daily_stats", 1000, 50, 5, 50, 100,
                Midnight(1), "all", "USD", "meta:x:d1", 1)
\* same bucket, distinct deduplication key: 500/25/25/50
EvB == RawEvent("u2", CampA, "meta", "daily_stats", 500, 25, 0, 25, 50,
                Midnight(1), "all", "USD", "meta:y:d1", 1)
\* campaign id absent, a negative metric, optional fields unset
EvBad == RawEvent(NilUUID, NilUUID, "meta", "", 10, -5, 0, 5, 0,
                  Midnight(1), "", "", "meta:z:d1", ZeroTime)
\* another campaign, next day
EvC == RawEvent("u4", CampB, "google", "daily_stats", 200, 0, 0, 0, 0,
                Midnight(2), "all", "USD", "google:x:d2", 1)

Payload(ev) == [ok |-> TRUE, event |-> ev]
\* a payload json.Unmarshal rejects
Garbage == [ok |-> FALSE, event |-> EvBad]

\* the partition the worker of SpecIngest consumes
Topic == << Payload(EvA), Payload(EvBad), Payload(EvB), Garbage >>

Workers == {"w1", "w2"}
Readers == {"r1", "r2"}

----------------------------------------------------------------------------
(* Arithmetic helpers *)

RECURSIVE GCD(_, _)
GCD(a, b) == IF b = 0 THEN a ELSE GCD(b, a % b)

\* a Float64 quotient n / d, kept exact as a reduced fraction
Quot(n, d) == LET g == GCD(n, d) IN << n \div g, d \div g >>
Zero == << 0, 1 >>

\* if(den > 0, num / den, 0)
Ratio(num, den) == IF den > 0 THEN Quot(num, den) ELSE Zero

RECURSIVE SumOf(_, _)
\* sum(field) over a sequence of rows
SumOf(rows, f) == IF rows = << >> THEN 0 ELSE Head(rows)[f] + SumOf(Tail(rows), f)

RECURSIVE SetToSeq(_)
SetToSeq(S) == IF S = {} THEN << >>
               ELSE LET x == CHOOSE y \in S : TRUE IN << x >> \o SetToSeq(S \ {x})

Max(a, b) == IF a >= b THEN a ELSE b
Range(s) == { s[i] : i \in DOMAIN s }

----------------------------------------------------------------------------
VARIABLES
    position,   \* offset of the next message the kafka reader hands out
    queued,     \* highest offset handed to the reader's commit loop
    committed,  \* offset committed for the consumer group at the broker
    ctxDone,    \* the worker's context is cancelled
    pc,         \* per worker: where Worker.Start / ProcessEvent stands
    cur,        \* per worker: offset, payload and decoded event in hand
    outcome,    \* per offset: result of the last ProcessEvent ("none" before)
                \* and, after a success, of the CommitMessages that followed
    dedup,      \* redis: the deduplication keys that exist (dedup:<key>)
    events,     \* clickhouse campaign_events: the physical rows, in insert order
    insights,   \* clickhouse campaign_insights: the physical rows, in insert order
    cache,      \* redis: insights cache, key -> cached rows, for the keys that exist
    now,        \* wall clock, seconds
    faults,     \* disturbances injected so far
    rg,         \* the TriggerReaggregation in progress
    reaggLog,   \* what each completed re-aggregation insert wrote
    rd,         \* per reader: the GetCampaignInsights in progress
    limiter,    \* rate limiter: the redis counter of one key and the requests
                \* that carry the key
    budget      \* budget tracking: the campaign's stored spend, the in-memory
                \* spend cache and the UpdateSpend calls in progress

vars == << position, queued, committed, ctxDone, pc, cur, outcome,
           dedup, events, insights, cache, now, faults, rg, reaggLog, rd,
           limiter, budget >>

brokerVars == << position, queued, committed, ctxDone, outcome >>
queryVars == << cache, rg, reaggLog, rd >>
apiVars == << limiter, budget >>
pipelineVars == << brokerVars, pc, cur, dedup, events, insights, now, queryVars >>

\* no request has reached the rate limiter
Requests == {"q1", "q2", "q3"}
NoExpiry == -1
NoLimiter == [ key |-> [present |-> FALSE, value |-> 0, ttl |-> NoExpiry],
               req |-> [q \in Requests |-> [pc |-> "idle", count |-> 0]],
               started |-> 0, admitted |-> 0 ]

\* no UpdateSpend call has been made: the campaign's spend is 0 in the
\* database and in the cache
Callers == {"u1", "u2"}
NoBudget == [ stored |-> 0, cached |-> 0, lock |-> "",
              call |-> [u \in Callers |->
                          [pc |-> "idle", campaignId |-> "", spend |-> 0,
                           currentSpend |-> 0, newSpend |-> 0, error |-> ""]],
              calls |-> 0, total |-> 0 ]

----------------------------------------------------------------------------
(* ClickHouse: ReplacingMergeTree tables and the aggregation SELECT *)

\* ORDER BY (campaign_id, event_time, deduplication_key)
EventKey(r) == << r.campaignId, r.eventTime, r.deduplicationKey >>
\* ORDER BY (campaign_id, date, platform, region)
InsightKey(r) == << r.campaignId, r.date, r.platform, r.region >>

RemoveAt(s, i) == SubSeq(s, 1, i - 1) \o SubSeq(s, i + 1, Len(s))

\* A background merge of two rows i < j with one sorting key: the row with the
\* greater version stays, the later inserted one on a tie.
ReplacingMerge(s, i, j, ver) ==
    IF s[j][ver] >= s[i][ver] THEN RemoveAt(s, i) ELSE RemoveAt(s, j)

\* the sorting key of a row of table tbl
SortingKey(tbl, r) == IF tbl = "campaign_events" THEN EventKey(r) ELSE InsightKey(r)

\* The rows a complete merge (or SELECT ... FINAL) leaves: one per sorting key.
Final(s, tbl, ver) ==
    { s[i] : i \in { i \in DOMAIN s :
          ~ \E j \in DOMAIN s :
               /\ SortingKey(tbl, s[j]) = SortingKey(tbl, s[i])
               /\ \/ s[j][ver] > s[i][ver]
                  \/ s[j][ver] = s[i][ver] /\ j > i } }

\* GROUP BY campaign_id, toDate(event_time), platform, region
BucketOf(e) == << e.campaignId, toDate(e.eventTime), e.platform, e.region >>

InBucket(rows, b) == SelectSeq(rows, LAMBDA e : BucketOf(e) = b)

InsightRow(b, imp, clk, conv, spend, rev, ctr, cpc, cpa, roas, cr, t) ==
    [ campaignId |-> b[1], date |-> b[2], platform |-> b[3], region |-> b[4],
      impressions |-> imp, clicks |-> clk, conversions |-> conv,
      spend |-> spend, revenue |-> rev,
      ctr |-> ctr, cpc |-> cpc, cpa |-> cpa, roas |-> roas,
      conversionRate |-> cr, updatedAt |-> t ]

\* The SELECT of mv_campaign_daily_aggregation over the rows it is given.
DailyAggregationRow(b, rows, t) ==
    LET imp == SumOf(rows, "impressions")
        clk == SumOf(rows, "clicks")
        conv == SumOf(rows, "conversions")
        spend == SumOf(rows, "spend")
        rev == SumOf(rows, "revenue")
    IN InsightRow(b, imp, clk, conv, spend, rev,
                  Ratio(clk, imp), Ratio(spend, clk), Ratio(spend, conv),
                  Ratio(rev, spend), Ratio(conv, clk), t)

\* The materialized view is an insert trigger: it runs its SELECT over the
\* block of rows one INSERT carries, not over the table.
MaterializedView(block, table, t) ==
    SetToSeq({ DailyAggregationRow(b, InBucket(block, b), t) :
                  b \in { BucketOf(e) : e \in Range(block) } })

\* INSERT INTO campaign_events: the rows are appended as a new part and the
\* view's rows are appended to campaign_insights.
InsertEvents(block) ==
    /\ events' = events \o block
    /\ insights' = insights \o MaterializedView(block, events, now)

----------------------------------------------------------------------------
(* Redis: deduplication keys *)

IsProcessedOnError(key, redisUp) == ~ redisUp \/ key \in dedup
\* EXISTS dedup:<key>; on an error the reply is (false, err)
IsDeduplicationKeyProcessed(key, redisUp) == redisUp /\ key \in dedup

\* SET dedup:<key> 1 EX 7d
MarkDeduplicationKeyProcessed(key, redisUp) ==
    dedup' = IF redisUp THEN dedup \cup {key} ELSE dedup

\* the 7 day TTL of a deduplication key runs out
DedupExpire ==
    /\ faults < MaxFaults
    /\ faults' = faults + 1
    /\ \E k \in dedup : dedup' = dedup \ {k}
    /\ UNCHANGED << brokerVars, pc, cur, events, insights, now, queryVars >>
    /\ UNCHANGED apiVars

----------------------------------------------------------------------------
(* EventProcessor *)

validateEventErrorNoCampaign(e) ==
    IF e.platform = "" THEN "missing platform"
    ELSE IF e.eventTime = ZeroTime THEN "missing event time"
    ELSE IF e.deduplicationKey = "" THEN "missing deduplication key"
    ELSE "ok"
validateEventErrorPlatformFirst(e) ==
    IF e.platform = "" THEN "missing platform"
    ELSE IF e.campaignId = NilUUID THEN "missing campaign ID"
    ELSE IF e.eventTime = ZeroTime THEN "missing event time"
    ELSE IF e.deduplicationKey = "" THEN "missing deduplication key"
    ELSE "ok"
\* validateEvent: "ok" or the error, checked in the code's order
validateEventError(e) ==
    IF e.campaignId = NilUUID THEN "missing campaign ID"
    ELSE IF e.platform = "" THEN "missing platform"
    ELSE IF e.eventTime = ZeroTime THEN "missing event time"
    ELSE IF e.deduplicationKey = "" THEN "missing deduplication key"
    ELSE "ok"

\* the identifiers uuid.New() can return: random, never uuid.Nil
GeneratedIds == {"g1", "g2"}
\* the identifiers of the rows stored and of the events being processed
UsedIds == { r.id : r \in Range(events) }
           \cup { cur[w].event.id : w \in { x \in Workers : pc[x] \in {"store", "mark"} } }
\* uuid.New() is called for an event without id; it does not repeat an identifier
NewUUID(e) == IF e.id = NilUUID THEN GeneratedIds \ UsedIds ELSE {e.id}

validateEventNoClampSpend(e, t, newId) ==
    [ e EXCEPT !.id = IF @ = NilUUID THEN newId ELSE @,
               !.impressions = IF @ < 0 THEN 0 ELSE @,
               !.clicks = IF @ < 0 THEN 0 ELSE @,
               !.conversions = IF @ < 0 THEN 0 ELSE @,
               !.revenue = IF @ < 0 THEN 0 ELSE @,
               !.eventType = IF @ = "" THEN "stats" ELSE @,
               !.region = IF @ = "" THEN "all" ELSE @,
               !.currency = IF @ = "" THEN "USD" ELSE @,
               !.receivedAt = IF @ = ZeroTime THEN t ELSE @ ]
validateEventStampAlways(e, t, newId) ==
    [ e EXCEPT !.id = IF @ = NilUUID THEN newId ELSE @,
               !.impressions = IF @ < 0 THEN 0 ELSE @,
               !.clicks = IF @ < 0 THEN 0 ELSE @,
               !.conversions = IF @ < 0 THEN 0 ELSE @,
               !.spend = IF @ < 0 THEN 0 ELSE @,
               !.revenue = IF @ < 0 THEN 0 ELSE @,
               !.eventType = IF @ = "" THEN "stats" ELSE @,
               !.region = IF @ = "" THEN "all" ELSE @,
               !.currency = IF @ = "" THEN "USD" ELSE @,
               !.receivedAt = t ]
\* validateEvent: the event as it leaves a successful validation at time t,
\* newId being the value of uuid.New()
validateEvent(e, t, newId) ==
    [ e EXCEPT !.id = IF @ = NilUUID THEN newId ELSE @,
               !.impressions = IF @ < 0 THEN 0 ELSE @,
               !.clicks = IF @ < 0 THEN 0 ELSE @,
               !.conversions = IF @ < 0 THEN 0 ELSE @,
               !.spend = IF @ < 0 THEN 0 ELSE @,
               !.revenue = IF @ < 0 THEN 0 ELSE @,
               !.eventType = IF @ = "" THEN "stats" ELSE @,
               !.region = IF @ = "" THEN "all" ELSE @,
               !.currency = IF @ = "" THEN "USD" ELSE @,
               !.receivedAt = IF @ = ZeroTime THEN t ELSE @ ]

\* ProcessEvent returns err to its caller; checkErr and markErr record whether
\* its calls of the deduplication store returned an error
Return(w, err, checkErr, markErr) ==
    /\ pc' = [pc EXCEPT ![w] = "returned"]
    /\ cur' = [cur EXCEPT ![w].err = err, ![w].checkErr = checkErr,
                          ![w].markErr = markErr]

\* A call that takes ctx (Redis, ClickHouse, Kafka) either works or returns an
\* error: a failure of the store, counted in faults, or, once the worker's
\* context is cancelled, context.Canceled. A call made with a cancelled
\* context may still go through.
CallOutcome(ok) ==
    /\ ok \/ faults < MaxFaults \/ ctxDone
    /\ faults' = IF ok \/ ctxDone THEN faults ELSE faults + 1

\* ProcessEvent, first part: json.Unmarshal, the deduplication check,
\* validateEvent and event.ProcessedAt = time.Now()
ProcessEventCheck(w) ==
    /\ pc[w] = "process"
    /\ LET e == cur[w].payload.event IN
       IF ~ cur[w].payload.ok
         THEN Return(w, "unmarshal", FALSE, FALSE) /\ UNCHANGED faults
         ELSE \E redisUp \in BOOLEAN :
                /\ CallOutcome(redisUp)
                /\ IF IsDeduplicationKeyProcessed(e.deduplicationKey, redisUp)
                     THEN Return(w, "nil", ~ redisUp, FALSE)
                   ELSE IF validateEventError(e) # "ok"
                     THEN Return(w, validateEventError(e), ~ redisUp, FALSE)
                   ELSE /\ pc' = [pc EXCEPT ![w] = "store"]
                        /\ \E newId \in NewUUID(e) :
                             cur' = [cur EXCEPT
                                 ![w].event = [validateEvent(e, now, newId)
                                                  EXCEPT !.processedAt = now],
                                 ![w].checkErr = ~ redisUp]
    /\ UNCHANGED << brokerVars, dedup, events, insights, now, queryVars >>
    /\ UNCHANGED apiVars

\* ProcessEvent, second part: storeEvent
storeEventAlwaysMark(w, ok) ==
    /\ pc[w] = "store"
    /\ IF ok THEN InsertEvents(<< cur[w].event >>) ELSE UNCHANGED << events, insights >>
    /\ pc' = [pc EXCEPT ![w] = "mark"]
    /\ UNCHANGED cur
storeEvent(w, ok) ==
    /\ pc[w] = "store"
    /\ IF ok
         THEN /\ InsertEvents(<< cur[w].event >>)
              /\ pc' = [pc EXCEPT ![w] = "mark"]
              /\ UNCHANGED cur
         ELSE /\ Return(w, "store", cur[w].checkErr, FALSE)
              /\ UNCHANGED << events, insights >>

ProcessEventStore(w) ==
    /\ \E ok \in BOOLEAN :
         /\ CallOutcome(ok)
         /\ storeEvent(w, ok)
    /\ UNCHANGED << brokerVars, dedup, now, queryVars >>
    /\ UNCHANGED apiVars

\* ProcessEvent, third part: the key is marked, a failure to mark is only logged
ProcessEventMark(w) ==
    /\ pc[w] = "mark"
    /\ \E redisUp \in BOOLEAN :
         /\ CallOutcome(redisUp)
         /\ MarkDeduplicationKeyProcessed(cur[w].event.deduplicationKey, redisUp)
         /\ Return(w, "nil", cur[w].checkErr, ~ redisUp)
    /\ UNCHANGED << brokerVars, events, insights, now, queryVars >>
    /\ UNCHANGED apiVars

----------------------------------------------------------------------------
(* Kafka reader of the consumer group, and Worker.Start *)

NoMessage == [offset |-> 0, payload |-> Garbage, event |-> EvBad, err |-> "nil",
              checkErr |-> FALSE, markErr |-> FALSE,
     late |-> FALSE]
Fetched(o) == [offset |-> o, payload |-> Topic[o], event |-> Topic[o].event, err |-> "nil",
               checkErr |-> FALSE, markErr |-> FALSE,
     late |-> FALSE]

\* Reader.CommitMessages with CommitInterval > 0: the offset is handed to the
\* reader's commit loop
CommitMessages(o) == queued' = Max(queued, o)

\* Consumer.ReadMessage = Reader.ReadMessage: in a consumer group it fetches the
\* next message and commits its offset before returning it
ReadMessage(w) ==
    /\ position <= Len(Topic)
    /\ cur' = [cur EXCEPT ![w] = Fetched(position)]
    /\ position' = position + 1
    /\ CommitMessages(position)

\* Worker.Start, top of the loop: the select returns on ctx.Done() and
\* otherwise takes the default branch
StartFetch(w) ==
    /\ pc[w] = "fetch"
    /\ pc' = [pc EXCEPT ![w] = IF ctxDone THEN "stopped" ELSE "call"]
    /\ UNCHANGED << brokerVars, cur, dedup, events, insights, now, faults, queryVars >>
    /\ UNCHANGED apiVars

\* Worker.Start, default branch: the call of w.consumer.ReadMessage(ctx)
\* begins; late records that ctx was cancelled after the select and before it
StartCall(w) ==
    /\ pc[w] = "call"
    /\ pc' = [pc EXCEPT ![w] = "read"]
    /\ cur' = [cur EXCEPT ![w].late = ctxDone]
    /\ UNCHANGED << brokerVars, dedup, events, insights, now, faults, queryVars >>
    /\ UNCHANGED apiVars

\* Worker.Start, default branch: inside w.consumer.ReadMessage(ctx). It blocks while
\* the partition has no further message and ctx is live. With ctx cancelled
\* the reader's selects (message or ctx.Done(), commit or ctx.Done()) may fall
\* either way: the message is returned, or an error, with the message taken
\* from the reader or not.
StartRead(w) ==
    /\ pc[w] = "read"
    /\ \/ /\ ReadMessage(w)
          /\ pc' = [pc EXCEPT ![w] = "process"]
          /\ UNCHANGED faults
       \/ /\ CallOutcome(FALSE)
          /\ pc' = [pc EXCEPT ![w] = "backoff"]
          /\ UNCHANGED << position, queued, cur >>
       \/ /\ ctxDone /\ position <= Len(Topic)
          /\ position' = position + 1
          /\ pc' = [pc EXCEPT ![w] = "backoff"]
          /\ UNCHANGED << queued, cur, faults >>
    /\ UNCHANGED << committed, ctxDone, outcome, dedup, events, insights,
                    now, queryVars >>
    /\ UNCHANGED apiVars

StartBackoffFatal(w) ==
    /\ pc[w] = "backoff"
    /\ pc' = [pc EXCEPT ![w] = "stopped"]
    /\ UNCHANGED << brokerVars, cur, dedup, events, insights, now, faults, queryVars >>
    /\ UNCHANGED apiVars
\* time.Sleep(1 * time.Second) after a read error
StartBackoff(w) ==
    /\ pc[w] = "backoff"
    /\ pc' = [pc EXCEPT ![w] = "fetch"]
    /\ UNCHANGED << brokerVars, cur, dedup, events, insights, now, faults, queryVars >>
    /\ UNCHANGED apiVars

StartAfterProcessFatal(w) ==
    /\ pc[w] = "returned"
    /\ cur[w].offset > 0
    /\ pc' = [pc EXCEPT ![w] = IF cur[w].err # "nil" THEN "stopped" ELSE "fetch"]
    /\ outcome' = [outcome EXCEPT ![cur[w].offset] =
                       IF cur[w].err # "nil" THEN "failed" ELSE "ok"]
    /\ CommitMessages(cur[w].offset)
    /\ UNCHANGED << position, committed, ctxDone, cur, dedup, events,
                    insights, now, faults, queryVars >>
    /\ UNCHANGED apiVars
\* Worker.Start after processMessage: on an error nothing is committed and the
\* loop continues; else CommitMessages, whose error is only logged
StartAfterProcess(w) ==
    /\ pc[w] = "returned"
    /\ cur[w].offset > 0
    /\ pc' = [pc EXCEPT ![w] = "fetch"]
    /\ IF cur[w].err # "nil"
         THEN /\ outcome' = [outcome EXCEPT ![cur[w].offset] = "failed"]
              /\ UNCHANGED << queued, faults >>
         ELSE \E ok \in BOOLEAN :
                /\ CallOutcome(ok)
                /\ outcome' = [outcome EXCEPT ![cur[w].offset] =
                                   IF ok THEN "ok" ELSE "commitFailed"]
                /\ IF ok THEN CommitMessages(cur[w].offset) ELSE UNCHANGED queued
    /\ UNCHANGED << position, committed, ctxDone, cur, dedup, events,
                    insights, now, queryVars >>
    /\ UNCHANGED apiVars

\* the reader's commit loop sends the queued offset to the broker
FlushCommit ==
    /\ queued > committed
    /\ committed' = queued
    /\ UNCHANGED << position, queued, ctxDone, outcome, pc, cur, dedup,
                    events, insights, now, faults, queryVars >>
    /\ UNCHANGED apiVars

\* main: cancel() on SIGINT / SIGTERM
Cancel ==
    /\ ~ ctxDone
    /\ pc["w1"] # "off"
    /\ ctxDone' = TRUE
    /\ UNCHANGED << position, queued, committed, outcome, pc, cur, dedup,
                    events, insights, now, faults, queryVars >>
    /\ UNCHANGED apiVars

\* The worker process ends (crash or shutdown) and a new one joins the group:
\* its reader starts at the committed offset; what was only queued is lost.
Restart ==
    /\ faults < MaxFaults
    /\ pc["w1"] # "off"
    /\ faults' = faults + 1
    /\ position' = committed + 1
    /\ queued' = committed
    /\ ctxDone' = FALSE
    /\ pc' = [pc EXCEPT !["w1"] = "fetch"]
    /\ cur' = [cur EXCEPT !["w1"] = NoMessage]
    /\ UNCHANGED << committed, outcome, dedup, events, insights, now, queryVars >>
    /\ UNCHANGED apiVars

----------------------------------------------------------------------------
(* Environment: the clock and ClickHouse's background merges *)

Tick ==
    /\ now < MaxClock
    /\ now' = now + 1
    /\ UNCHANGED << brokerVars, pc, cur, dedup, events, insights, faults, queryVars >>
    /\ UNCHANGED apiVars

\* rows i < j of one sorting key with no row of that key between them: the
\* parts that hold them are merged
Mergeable(s, tbl, i, j) ==
    /\ i < j
    /\ SortingKey(tbl, s[i]) = SortingKey(tbl, s[j])
    /\ \A m \in DOMAIN s : (i < m /\ m < j) => SortingKey(tbl, s[m]) # SortingKey(tbl, s[i])

MergeEvents ==
    /\ \E i, j \in DOMAIN events :
         /\ Mergeable(events, "campaign_events", i, j)
         /\ events' = ReplacingMerge(events, i, j, "processedAt")
    /\ UNCHANGED << brokerVars, pc, cur, dedup, insights, now, faults, queryVars >>
    /\ UNCHANGED apiVars

MergeInsights ==
    /\ \E i, j \in DOMAIN insights :
         /\ Mergeable(insights, "campaign_insights", i, j)
         /\ insights' = ReplacingMerge(insights, i, j, "updatedAt")
    /\ UNCHANGED << brokerVars, pc, cur, dedup, events, now, faults, queryVars >>
    /\ UNCHANGED apiVars

----------------------------------------------------------------------------
(* AggregationService.TriggerReaggregation *)

ReaggregationRowCpaByClicks(b, rows, t) ==
    LET imp == SumOf(rows, "impressions")
        clk == SumOf(rows, "clicks")
        conv == SumOf(rows, "conversions")
        spend == SumOf(rows, "spend")
        rev == SumOf(rows, "revenue")
    IN InsightRow(b, imp, clk, conv, spend, rev,
                  Ratio(clk, imp), Ratio(spend, clk), Ratio(spend, clk),
                  Ratio(rev, spend), Ratio(conv, clk), t)
\* The aggregating SELECT of the re-aggregation query over the rows it reads.
ReaggregationRow(b, rows, t) ==
    LET imp == SumOf(rows, "impressions")
        clk == SumOf(rows, "clicks")
        conv == SumOf(rows, "conversions")
        spend == SumOf(rows, "spend")
        rev == SumOf(rows, "revenue")
    IN InsightRow(b, imp, clk, conv, spend, rev,
                  Ratio(clk, imp), Ratio(spend, clk), Ratio(spend, conv),
                  Ratio(rev, spend), Ratio(conv, clk), t)

\* WHERE campaign_id = ? AND event_time >= ? AND event_time <= ?
ReaggregationWhere(e, camp, startDate, endDate) ==
    /\ e.campaignId = camp
    /\ e.eventTime >= startDate
    /\ e.eventTime <= endDate

\* SELECT ... FROM campaign_events WHERE ... GROUP BY ...: the physical rows
\* of the table are read (no FINAL), now() is one value for the statement
ReaggregationSelect(table, camp, startDate, endDate, t) ==
    LET sel == SelectSeq(table, LAMBDA e : ReaggregationWhere(e, camp, startDate, endDate))
    IN SetToSeq({ ReaggregationRow(b, InBucket(sel, b), t) :
                     b \in { BucketOf(e) : e \in Range(sel) } })

\* an aggregate row without its updated_at
Contents(r) == [r EXCEPT !.updatedAt = ZeroTime]

\* the end dates a request carries: parsed "2006-01-02" values, midnight of a
\* day; the start date is day 1
RequestDays == {1}

\* the handler starts the goroutine that calls
\* TriggerReaggregation(c.Request.Context(), campaignID, startDate, endDate)
ReaggStart ==
    /\ rg.pc = "idle"
    /\ rg.calls < MaxReagg
    /\ \E d \in RequestDays :
         rg' = [rg EXCEPT !.pc = "exec", !.campaignId = CampA,
                          !.startDate = Midnight(1), !.endDate = Midnight(d),
                          !.keys = {}, !.calls = @ + 1, !.reqDone = FALSE,
                          !.err = "nil"]
    /\ UNCHANGED << brokerVars, pc, cur, dedup, events, insights, cache, now,
                    faults, reaggLog, rd >>
    /\ UNCHANGED apiVars

\* the handler has written its answer and returned: net/http cancels the
\* request's context, the one the goroutine passes to TriggerReaggregation
RequestEnds ==
    /\ rg.pc # "idle"
    /\ ~ rg.reqDone
    /\ rg' = [rg EXCEPT !.reqDone = TRUE]
    /\ UNCHANGED << brokerVars, pc, cur, dedup, events, insights, cache, now,
                    faults, reaggLog, rd >>
    /\ UNCHANGED apiVars

\* a call that takes the request's context: it fails when the store does, and
\* may fail once the context is cancelled
RequestCallOutcome(ok) ==
    /\ ok \/ faults < MaxFaults \/ rg.reqDone
    /\ faults' = IF ok \/ rg.reqDone THEN faults ELSE faults + 1

ReaggExecThenInvalidate ==
    /\ rg.pc = "exec"
    /\ \E ok \in BOOLEAN :
         /\ RequestCallOutcome(ok)
         /\ IF ok
              THEN LET rows == ReaggregationSelect(events, rg.campaignId,
                                                   rg.startDate, rg.endDate, now)
                   IN /\ insights' = insights \o rows
                      /\ reaggLog' = Append(reaggLog,
                            [ campaignId |-> rg.campaignId,
                              startDate |-> rg.startDate, endDate |-> rg.endDate,
                              logical |-> Final(events, "campaign_events", "processedAt"),
                              rows |-> { Contents(r) : r \in Range(rows) } ])
                      /\ rg' = [rg EXCEPT !.pc = "keys"]
              ELSE /\ rg' = [rg EXCEPT !.pc = "keys"]
                   /\ UNCHANGED << insights, reaggLog >>
    /\ UNCHANGED << brokerVars, pc, cur, dedup, events, cache, now, rd >>
    /\ UNCHANGED apiVars

\* conn.Exec of the INSERT INTO campaign_insights SELECT ...; on an error
\* TriggerReaggregation returns it
ReaggExec ==
    /\ rg.pc = "exec"
    /\ \E ok \in BOOLEAN :
         /\ RequestCallOutcome(ok)
         /\ IF ok
              THEN LET rows == ReaggregationSelect(events, rg.campaignId,
                                                   rg.startDate, rg.endDate, now)
                   IN /\ insights' = insights \o rows
                      /\ reaggLog' = Append(reaggLog,
                            [ campaignId |-> rg.campaignId,
                              startDate |-> rg.startDate, endDate |-> rg.endDate,
                              logical |-> Final(events, "campaign_events", "processedAt"),
                              rows |-> { Contents(r) : r \in Range(rows) } ])
                      /\ rg' = [rg EXCEPT !.pc = "keys"]
              ELSE /\ rg' = [rg EXCEPT !.pc = "idle", !.err = "exec"]
                   /\ UNCHANGED << insights, reaggLog >>
    /\ UNCHANGED << brokerVars, pc, cur, dedup, events, cache, now, rd >>
    /\ UNCHANGED apiVars

\* the cache keys KEYS insights:<campaign>:* matches
HasPrefix(k, prefix) == Len(k) >= Len(prefix) /\ SubSeq(k, 1, Len(prefix)) = prefix
CachePatternAll(camp) == "insights:"
\* fmt.Sprintf("insights:%s:*", campaignID.String()), without the final *
CachePattern(camp) == "insights:" \o camp \o ":"

\* redis KEYS; on an error, or with no key, TriggerReaggregation returns nil
ReaggKeys ==
    /\ rg.pc = "keys"
    /\ \E redisUp \in BOOLEAN :
         /\ RequestCallOutcome(redisUp)
         /\ LET keys == { k \in DOMAIN cache : HasPrefix(k, CachePattern(rg.campaignId)) }
            IN rg' = IF redisUp /\ keys # {}
                       THEN [rg EXCEPT !.pc = "del", !.keys = keys]
                       ELSE [rg EXCEPT !.pc = "idle"]
    /\ UNCHANGED << brokerVars, pc, cur, dedup, events, insights, cache, now,
                    reaggLog, rd >>
    /\ UNCHANGED apiVars

\* redis DEL keys...; TriggerReaggregation returns nil
ReaggDel ==
    /\ rg.pc = "del"
    /\ \E redisUp \in BOOLEAN :
         /\ RequestCallOutcome(redisUp)
         /\ cache' = IF redisUp
                       THEN [k \in DOMAIN cache \ rg.keys |-> cache[k]]
                       ELSE cache
    /\ rg' = [rg EXCEPT !.pc = "idle", !.keys = {}]
    /\ UNCHANGED << brokerVars, pc, cur, dedup, events, insights, now, reaggLog, rd >>
    /\ UNCHANGED apiVars

----------------------------------------------------------------------------
(* AggregationService.GetCampaignInsights *)

\* a *Platform / *string parameter: << >> is the nil pointer, << v >> points to v
NilPtr == << >>

Params(camp, startDate, endDate, platform, region, granularity) ==
    [ campaignId |-> camp, startDate |-> startDate, endDate |-> endDate,
      platform |-> platform, region |-> region, granularity |-> granularity ]

\* time.Format("2006-01-02")
FormatDate(t) == "2024-01-0" \o ToString(toDate(t))

getCacheKey(p) ==
    "insights:" \o p.campaignId \o ":"
    \o (IF p.startDate # ZeroTime THEN "start:" \o FormatDate(p.startDate) \o ":" ELSE "")
    \o (IF p.endDate # ZeroTime THEN "end:" \o FormatDate(p.endDate) \o ":" ELSE "")
    \o (IF p.platform # NilPtr THEN "platform:" \o p.platform[1] \o ":" ELSE "")
    \o (IF p.region # NilPtr THEN "region:" \o p.region[1] \o ":" ELSE "")
    \o (IF p.granularity # "" THEN "granularity:" \o p.granularity \o ":" ELSE "")

\* the WHERE clause buildInsightsQuery composes; a Date compared with a
\* DateTime argument stands for its midnight
buildInsightsQuery(r, p) ==
    /\ p.campaignId # NilUUID => r.campaignId = p.campaignId
    /\ p.startDate # ZeroTime => Midnight(r.date) >= p.startDate
    /\ p.endDate # ZeroTime => Midnight(r.date) <= p.endDate
    /\ p.platform # NilPtr => r.platform = p.platform[1]
    /\ (p.region # NilPtr /\ p.region[1] # "") => r.region = p.region[1]

\* the query text and the arguments buildInsightsQuery returns: the clauses
\* appended to WHERE 1=1, each with its argument
buildInsightsQueryArgs(p) ==
    (IF p.campaignId # NilUUID THEN << << "campaign_id = ?", p.campaignId >> >> ELSE << >>)
    \o (IF p.startDate # ZeroTime THEN << << "date >= ?", p.startDate >> >> ELSE << >>)
    \o (IF p.endDate # ZeroTime THEN << << "date <= ?", p.endDate >> >> ELSE << >>)
    \o (IF p.platform # NilPtr THEN << << "platform = ?", p.platform[1] >> >> ELSE << >>)
    \o (IF p.region # NilPtr /\ p.region[1] # ""
          THEN << << "region = ?", p.region[1] >> >> ELSE << >>)

RECURSIVE OrderByDate(_)
\* ORDER BY date ASC, rows of one date in the order the table holds them
OrderByDate(rows) ==
    IF rows = << >> THEN << >>
    ELSE LET d == CHOOSE x \in { r.date : r \in Range(rows) } :
                     \A y \in { r.date : r \in Range(rows) } : x <= y
         IN SelectSeq(rows, LAMBDA r : r.date = d)
            \o OrderByDate(SelectSeq(rows, LAMBDA r : r.date # d))

\* conn.Query: the physical rows of campaign_insights that match (no FINAL)
QueryInsights(table, p) ==
    OrderByDate(SelectSeq(table, LAMBDA r : buildInsightsQuery(r, p)))

EmptyCache == [k \in {} |-> << >>]
\* redis SET key value EX 300
CacheSet(key, rows) == [k \in DOMAIN cache \cup {key} |-> IF k = key THEN rows ELSE cache[k]]

\* queries of the insights handler for campaign A: both days, and day 1 only
QueryA == Params(CampA, Midnight(1), Midnight(2), NilPtr, NilPtr, "daily")
QueryDay1 == Params(CampA, Midnight(1), Midnight(1), NilPtr, NilPtr, "daily")

\* the re-aggregation inserts whose TriggerReaggregation has returned
ReaggReturned == IF rg.pc \in {"keys", "del"} THEN Len(reaggLog) - 1 ELSE Len(reaggLog)

\* the handler calls GetCampaignInsights with the parameters it parsed from
\* the request: the cache key is computed
GetStart(r) ==
    /\ rd[r].pc = "idle"
    /\ rd' = [rd EXCEPT ![r] = [pc |-> "cacheGet", params |-> rd[r].params,
                                key |-> getCacheKey(rd[r].params), rows |-> << >>,
                                hit |-> FALSE, cacheErr |-> FALSE, err |-> "nil",
                                began |-> ReaggReturned, seen |-> 0]]
    /\ UNCHANGED << brokerVars, pc, cur, dedup, events, insights, cache, now,
                    faults, rg, reaggLog >>
    /\ UNCHANGED apiVars

\* what a GET can meet: the server answers, the command fails, or the value
\* under the key is not the JSON of a list of insights
ReadOutcomes == {"ok", "error", "undecodable"}

\* redis.GetObject(key, &insights): the error, and insights as the call leaves
\* it. An absent key is the error redis.Nil; json.Unmarshal keeps the elements
\* it decoded before it met the value it could not decode.
GetObject(key, got) ==
    IF got = "error" \/ key \notin DOMAIN cache
      THEN [err |-> TRUE, rows |-> << >>, seen |-> 0]
    ELSE IF got = "undecodable"
      THEN [err |-> TRUE, rows |-> SubSeq(cache[key].rows, 1, 1), seen |-> cache[key].seen]
    ELSE [err |-> FALSE, rows |-> cache[key].rows, seen |-> cache[key].seen]

CacheHitIgnoringErr(res) == Len(res.rows) > 0
\* err == nil && len(insights) > 0
CacheHit(res) == ~ res.err /\ Len(res.rows) > 0

\* redis.GetObject: a non-empty cached value is returned, anything else
\* (no key, an error) is a miss
GetCacheRead(r) ==
    /\ rd[r].pc = "cacheGet"
    /\ \E got \in ReadOutcomes :
         /\ got = "ok" \/ faults < MaxFaults
         /\ got = "undecodable" => rd[r].key \in DOMAIN cache
         /\ faults' = IF got = "ok" THEN faults ELSE faults + 1
         /\ LET res == GetObject(rd[r].key, got) IN
            IF CacheHit(res)
              THEN rd' = [rd EXCEPT ![r].pc = "done", ![r].hit = TRUE,
                                    ![r].rows = res.rows, ![r].seen = res.seen,
                                    ![r].cacheErr = res.err]
              ELSE rd' = [rd EXCEPT ![r].pc = "query", ![r].rows = res.rows,
                                    ![r].cacheErr = res.err]
    /\ UNCHANGED << brokerVars, pc, cur, dedup, events, insights, cache, now,
                    rg, reaggLog >>
    /\ UNCHANGED apiVars

\* the places where reading campaign_insights can fail: conn.Query,
\* rows.Scan, uuid.Parse of the campaign id, rows.Err() after the loop
QueryErrors == {"query", "scan", "parse", "rows"}

\* conn.Query and the scan of its rows; an error is returned to the caller
\* with a nil slice
GetQuery(r) ==
    /\ rd[r].pc = "query"
    /\ \E res \in {"nil"} \cup QueryErrors :
         /\ res = "nil" \/ faults < MaxFaults
         /\ faults' = IF res = "nil" THEN faults ELSE faults + 1
         /\ IF res = "nil"
              THEN LET rows == QueryInsights(insights, rd[r].params)
                   IN rd' = [rd EXCEPT ![r].pc = IF Len(rows) > 0 THEN "cacheSet" ELSE "done",
                                       ![r].rows = rows,
                                       ![r].seen = Len(reaggLog)]
              ELSE rd' = [rd EXCEPT ![r].pc = "failed", ![r].rows = << >>,
                                    ![r].err = res]
    /\ UNCHANGED << brokerVars, pc, cur, dedup, events, insights, cache, now,
                    rg, reaggLog >>
    /\ UNCHANGED apiVars

\* redis.Set of a non-empty result for 5 minutes; a failure is only logged
GetCacheWrite(r) ==
    /\ rd[r].pc = "cacheSet"
    /\ \E redisUp \in BOOLEAN :
         /\ redisUp \/ faults < MaxFaults
         /\ faults' = IF redisUp THEN faults ELSE faults + 1
         /\ cache' = IF redisUp
                       THEN CacheSet(rd[r].key, [rows |-> rd[r].rows, seen |-> rd[r].seen])
                       ELSE cache
    /\ rd' = [rd EXCEPT ![r].pc = "done"]
    /\ UNCHANGED << brokerVars, pc, cur, dedup, events, insights, now, rg, reaggLog >>
    /\ UNCHANGED apiVars

\* the 5 minute TTL of a cache entry runs out
CacheExpire ==
    /\ faults < MaxFaults
    /\ faults' = faults + 1
    /\ \E key \in DOMAIN cache : cache' = [k \in DOMAIN cache \ {key} |-> cache[k]]
    /\ UNCHANGED << brokerVars, pc, cur, dedup, events, insights, now, rg, reaggLog, rd >>
    /\ UNCHANGED apiVars

----------------------------------------------------------------------------
(* Ingestion: one worker consuming the topic *)

IdleQuery == [pc |-> "idle", campaignId |-> NilUUID, startDate |-> ZeroTime,
              endDate |-> ZeroTime, keys |-> {}, calls |-> 0, reqDone |-> FALSE,
              err |-> "nil"]
IdleReader == [pc |-> "idle", params |-> QueryDay1, key |-> "", rows |-> << >>,
               hit |-> FALSE, cacheErr |-> FALSE, err |-> "nil",
               began |-> 0, seen |-> 0]

InitIngest ==
    /\ position = 1 /\ queued = 0 /\ committed = 0
    /\ ctxDone = FALSE
    /\ pc = [w \in Workers |-> IF w = "w1" THEN "fetch" ELSE "off"]
    /\ cur = [w \in Workers |-> NoMessage]
    /\ outcome = [o \in DOMAIN Topic |-> "none"]
    /\ dedup = {} /\ events = << >> /\ insights = << >> /\ now = 1 /\ faults = 0
    /\ cache = EmptyCache /\ rg = IdleQuery /\ reaggLog = << >>
    /\ rd = [r \in Readers |-> IdleReader]
    /\ limiter = NoLimiter /\ budget = NoBudget

NextIngest ==
    \/ StartFetch("w1")
    \/ StartCall("w1")
    \/ StartRead("w1")
    \/ StartBackoff("w1")
    \/ ProcessEventCheck("w1")
    \/ ProcessEventStore("w1")
    \/ ProcessEventMark("w1")
    \/ StartAfterProcess("w1")
    \/ FlushCommit
    \/ Cancel
    \/ Restart
    \/ DedupExpire
    \/ MergeEvents

SpecIngest == InitIngest /\ [][NextIngest]_vars

----------------------------------------------------------------------------
(* Aggregation: two workers, each inside ProcessEvent for a message of its  *)
(* own partition, a re-aggregation request and the background merges.       *)

\* appended before the run starts: another campaign, and campaign A on day 2
EvD == RawEvent("u5", CampA, "meta", "daily_stats", 300, 30, 3, 30, 60,
                Midnight(2), "all", "USD", "meta:x:d2", 1)
Before == << EvC, EvD >>

\* the row storeEvent inserted for e at time t
Stored(e, t) == [validateEvent(e, t, e.id) EXCEPT !.processedAt = t]
InHand(e) == [offset |-> 0, payload |-> Payload(e), event |-> e, err |-> "nil",
              checkErr |-> FALSE, markErr |-> FALSE,
     late |-> FALSE]

RECURSIVE Ingested(_, _)
\* the two tables after the events of es were inserted one by one at time t
Ingested(es, t) ==
    IF es = << >> THEN [events |-> << >>, insights |-> << >>]
    ELSE LET before == Ingested(SubSeq(es, 1, Len(es) - 1), t)
             row == << Stored(es[Len(es)], t) >>
         IN [events |-> before.events \o row,
             insights |-> before.insights \o MaterializedView(row, before.events, t)]

InitAgg ==
    /\ position = 1 /\ queued = 0 /\ committed = 0
    /\ ctxDone = FALSE
    /\ outcome = [o \in DOMAIN Topic |-> "none"]
    /\ pc = [w \in Workers |-> "process"]
    /\ \E e \in {EvA, EvB} : cur = [w \in Workers |-> IF w = "w1" THEN InHand(EvA) ELSE InHand(e)]
    /\ dedup = { e.deduplicationKey : e \in Range(Before) }
    /\ events = Ingested(Before, 1).events
    /\ insights = Ingested(Before, 1).insights
    /\ cache = [k \in {getCacheKey(QueryA)} |->
                  [rows |-> QueryInsights(Ingested(Before, 1).insights, QueryA),
                   seen |-> 0]]
    \* room for one disturbance
    /\ now = 1 /\ faults = MaxFaults - 1
    /\ rg = IdleQuery /\ reaggLog = << >>
    /\ rd = [r \in Readers |-> IdleReader]
    /\ limiter = NoLimiter /\ budget = NoBudget

NextAgg ==
    \/ \E w \in Workers : ProcessEventCheck(w)
    \/ \E w \in Workers : ProcessEventStore(w)
    \/ \E w \in Workers : ProcessEventMark(w)
    \/ ReaggStart
    \/ ReaggExec
    \/ ReaggKeys
    \/ ReaggDel
    \/ MergeEvents
    \/ MergeInsights
    \/ Tick

SpecAgg == InitAgg /\ [][NextAgg]_vars

----------------------------------------------------------------------------
(* Re-aggregation: repeated requests over tables that hold, for campaign A's *)
(* day 1, two google events (at midnight and later in the day: the google  *)
(* client stamps events with the time of day of its fetch window) and EvA   *)
(* twice, delivered again after its deduplication key was not marked.       *)

EvE == RawEvent("u6", CampA, "google", "daily_stats", 40, 4, 1, 4, 8,
                Midnight(1), "all", "USD", "google:e:d1", 1)
EvF == RawEvent("u7", CampA, "google", "daily_stats", 60, 6, 1, 6, 12,
                Midnight(1) + 1, "all", "USD", "google:f:d1", 1)
Stock == << EvC, EvD, EvE, EvF, EvA, EvA >>

InitReagg ==
    /\ position = 1 /\ queued = 0 /\ committed = 0
    /\ ctxDone = FALSE
    /\ outcome = [o \in DOMAIN Topic |-> "none"]
    /\ pc = [w \in Workers |-> "off"]
    /\ cur = [w \in Workers |-> NoMessage]
    /\ dedup = { e.deduplicationKey : e \in Range(Stock) }
    /\ events = Ingested(Stock, 1).events
    /\ insights = Ingested(Stock, 1).insights
    /\ cache = [k \in {getCacheKey(QueryA)} |->
                  [rows |-> QueryInsights(Ingested(Stock, 1).insights, QueryA),
                   seen |-> 0]]
    \* room for one disturbance
    /\ now = 1 /\ faults = MaxFaults - 1
    /\ rg = IdleQuery /\ reaggLog = << >>
    /\ rd = [r \in Readers |-> IdleReader]
    /\ limiter = NoLimiter /\ budget = NoBudget

NextReagg ==
    \/ ReaggStart
    \/ ReaggExec
    \/ ReaggKeys
    \/ ReaggDel
    \/ RequestEnds
    \/ MergeEvents
    \/ MergeInsights
    \/ Tick

SpecReagg == InitReagg /\ [][NextReagg]_vars

----------------------------------------------------------------------------
(* Validation: two workers, each inside ProcessEvent for a message whose     *)
(* event is any of a set of payloads (required fields absent, negative      *)
(* metrics, optional fields unset), and a re-aggregation request.           *)

\* none of the required fields
EvNone == RawEvent("u13", NilUUID, "", "daily_stats", 10, 1, 0, 1, 2,
                   ZeroTime, "all", "USD", "", 1)
\* no platform and no event time, under the deduplication key of EvA
EvNoPlatform == RawEvent("u10", CampA, "", "daily_stats", 10, 1, 0, 1, 2,
                         ZeroTime, "all", "USD", EvA.deduplicationKey, 1)
\* no event time and no deduplication key
EvNoTime == RawEvent("u11", CampA, "meta", "daily_stats", 10, 1, 0, 1, 2,
                     ZeroTime, "all", "USD", "", 1)
\* no deduplication key
EvNoKey == RawEvent("u12", CampA, "meta", "daily_stats", 10, 1, 0, 1, 2,
                    Midnight(1), "all", "USD", "", 1)
\* every metric negative, every optional field unset
EvNeg == RawEvent(NilUUID, CampA, "meta", "", -10, -5, -1, -3, -7,
                  Midnight(1), "", "", "meta:n:d1", ZeroTime)
\* clicks = -5, everything else set
EvClk == RawEvent("u8", CampA, "meta", "daily_stats", 1000, -5, 5, 50, 100,
                  Midnight(1), "all", "USD", "meta:c:d1", 1)
\* no id, no clicks and no spend, optional fields set to other values
EvEur == RawEvent(NilUUID, CampA, "google", "click", 100, 0, 4, 0, 20,
                  Midnight(1), "eu", "EUR", "google:p:d1", 1)
\* MetaClient.FetchData(externalID, ...): the event of one day of the
\* platform's answer, its deduplication key built from the external id and
\* the day (d1 stands for 2024-01-01)
MetaFetchData(externalId, day, id) ==
    RawEvent(id, externalId, "meta", "daily_stats", 1000, 50, 5, 50, 100,
             Midnight(day), "all", "USD",
             "meta:" \o externalId \o ":d" \o ToString(day), 1)
\* CampaignService.FetchCampaignData: the events FetchData returned for the
\* campaign's external id, published under the campaign's own id
FetchCampaignData(camp, externalId, day, id) ==
    [MetaFetchData(externalId, day, id) EXCEPT !.campaignId = camp]
\* the event of day 1 for campaign B, which has the external id of campaign A
EvTwin == FetchCampaignData(CampB, "x", 1, "u14")
Inputs == { EvA, EvBad, EvNone, EvNoPlatform, EvNoTime, EvNoKey, EvNeg, EvClk, EvEur,
            EvTwin }

InitValidate ==
    /\ position = 1 /\ queued = 0 /\ committed = 0
    /\ ctxDone = FALSE
    /\ outcome = [o \in DOMAIN Topic |-> "none"]
    /\ pc = [w \in Workers |-> "process"]
    /\ \E e1 \in Inputs, e2 \in Inputs :
         cur = [w \in Workers |-> IF w = "w1" THEN InHand(e1) ELSE InHand(e2)]
    /\ dedup = { e.deduplicationKey : e \in Range(Before) }
    /\ events = Ingested(Before, 1).events
    /\ insights = Ingested(Before, 1).insights
    /\ cache = [k \in {getCacheKey(QueryA)} |->
                  [rows |-> QueryInsights(Ingested(Before, 1).insights, QueryA),
                   seen |-> 0]]
    \* the clock has moved on since the events were received; room for one
    \* disturbance
    /\ now = MaxClock /\ faults = MaxFaults - 1
    /\ rg = IdleQuery /\ reaggLog = << >>
    /\ rd = [r \in Readers |-> IdleReader]
    /\ limiter = NoLimiter /\ budget = NoBudget

NextValidate ==
    \/ \E w \in Workers : ProcessEventCheck(w)
    \/ \E w \in Workers : ProcessEventStore(w)
    \/ \E w \in Workers : ProcessEventMark(w)
    \/ ReaggStart
    \/ ReaggExec
    \/ ReaggKeys
    \/ ReaggDel

SpecValidate == InitValidate /\ [][NextValidate]_vars

----------------------------------------------------------------------------
(* Queries: two GetCampaignInsights calls and a re-aggregation request over *)
(* tables that hold the two events of campaign A's day 1.                   *)

InitCache ==
    /\ position = 1 /\ queued = 0 /\ committed = 0
    /\ ctxDone = FALSE
    /\ outcome = [o \in DOMAIN Topic |-> "none"]
    /\ pc = [w \in Workers |-> "off"]
    /\ cur = [w \in Workers |-> NoMessage]
    /\ dedup = {EvA.deduplicationKey, EvB.deduplicationKey}
    /\ events = Ingested(<< EvA, EvB >>, 1).events
    /\ insights = Ingested(<< EvA, EvB >>, 1).insights
    /\ cache = EmptyCache
    \* room for one disturbance
    /\ now = 1 /\ faults = MaxFaults - 1
    /\ rg = IdleQuery /\ reaggLog = << >>
    /\ rd = [r \in Readers |-> IdleReader]
    /\ limiter = NoLimiter /\ budget = NoBudget

NextCache ==
    \/ \E r \in Readers : GetStart(r)
    \/ \E r \in Readers : GetCacheRead(r)
    \/ \E r \in Readers : GetQuery(r)
    \/ \E r \in Readers : GetCacheWrite(r)
    \/ CacheExpire
    \/ ReaggStart
    \/ ReaggExec
    \/ ReaggKeys
    \/ ReaggDel
    \/ MergeInsights

SpecCache == InitCache /\ [][NextCache]_vars

----------------------------------------------------------------------------
(* Query parameters: two GetCampaignInsights calls, each with any of a set  *)
(* of parameters, and a re-aggregation request for campaign A, over tables  *)
(* that hold two events of campaign A and an event of campaign B.           *)

\* day 1 of campaign A with Region pointing to the empty string
QueryEmptyRegion == Params(CampA, Midnight(1), Midnight(1), NilPtr, << "" >>, "daily")
\* ?region=all&platform=meta
QueryMetaAll == Params(CampA, Midnight(1), Midnight(1), << "meta" >>, << "all" >>, "daily")
\* ?granularity=hourly
QueryHourly == Params(CampA, Midnight(1), Midnight(1), NilPtr, NilPtr, "hourly")
\* day 2 of campaign B
QueryB == Params(CampB, Midnight(2), Midnight(2), NilPtr, NilPtr, "daily")
\* ?end_date=2024-01-02 without start_date: the handler's default start,
\* time.Now().AddDate(0, 0, -30), an instant within day 1
QueryDefaultStart == Params(CampA, Midnight(1) + 1, Midnight(2), NilPtr, NilPtr, "daily")
\* ?granularity=weekly over the two days
QueryWeekly == Params(CampA, Midnight(1), Midnight(2), NilPtr, NilPtr, "weekly")
\* ?platform=meta:region:all: the handler converts any string to a Platform
QueryColon == Params(CampA, Midnight(1), Midnight(1), << "meta:region:all" >>, NilPtr, "daily")
QueryList == << QueryDay1, QueryEmptyRegion, QueryMetaAll, QueryHourly, QueryB,
               QueryA, QueryDefaultStart, QueryWeekly, QueryColon >>
Queries == Range(QueryList)

InitQuery ==
    /\ position = 1 /\ queued = 0 /\ committed = 0
    /\ ctxDone = FALSE
    /\ outcome = [o \in DOMAIN Topic |-> "none"]
    /\ pc = [w \in Workers |-> "off"]
    /\ cur = [w \in Workers |-> NoMessage]
    /\ dedup = {EvD.deduplicationKey, EvA.deduplicationKey, EvC.deduplicationKey}
    /\ events = Ingested(<< EvD, EvA, EvC >>, 1).events
    /\ insights = Ingested(<< EvD, EvA, EvC >>, 1).insights
    /\ cache = EmptyCache
    \* room for one disturbance
    /\ now = 1 /\ faults = MaxFaults - 1
    /\ rg = IdleQuery /\ reaggLog = << >>
    \* the two calls are interchangeable: one order of each pair of parameters
    /\ \E i, j \in DOMAIN QueryList :
         /\ i <= j
         /\ rd = [r \in Readers |->
                    [IdleReader EXCEPT !.params = QueryList[IF r = "r1" THEN i ELSE j]]]
    /\ limiter = NoLimiter /\ budget = NoBudget

NextQuery ==
    \/ \E r \in Readers : GetStart(r)
    \/ \E r \in Readers : GetCacheRead(r)
    \/ \E r \in Readers : GetQuery(r)
    \/ \E r \in Readers : GetCacheWrite(r)
    \/ ReaggStart
    \/ ReaggExec
    \/ ReaggKeys
    \/ ReaggDel

SpecQuery == InitQuery /\ [][NextQuery]_vars

----------------------------------------------------------------------------
(* RateLimiterMiddleware.RateLimit: requests that carry one key *)

\* router.Use(rateLimiter.RateLimit(rateLimit, 60)): the rate and the period,
\* scaled down
Rate == 2
Period == 2
MaxRequests == 4

\* redisClient.Get(ctx, key).Int(): redis.Nil leaves count at 0; on another
\* error the request goes on to the handler
RateLimitGet(q) ==
    /\ limiter.req[q].pc = "idle"
    /\ limiter.started < MaxRequests
    /\ \E redisUp \in BOOLEAN :
         /\ redisUp \/ faults < MaxFaults
         /\ faults' = IF redisUp THEN faults ELSE faults + 1
         /\ limiter' = IF redisUp
              THEN [limiter EXCEPT !.started = @ + 1,
                                   !.req[q] = [pc |-> "counted",
                                               count |-> IF limiter.key.present
                                                           THEN limiter.key.value ELSE 0]]
              ELSE [limiter EXCEPT !.started = @ + 1, !.admitted = @ + 1,
                                   !.req[q] = [pc |-> "handler", count |-> 0]]
    /\ UNCHANGED << pipelineVars, budget >>

\* SET key 1 EX period
RateSet == [present |-> TRUE, value |-> 1, ttl |-> Period]
\* INCR key: a key that does not exist is created with value 1 and no expiry
RateIncr(key) == IF key.present THEN [key EXCEPT !.value = @ + 1]
                 ELSE [present |-> TRUE, value |-> 1, ttl |-> NoExpiry]

\* if count >= rate the request is answered 429; else the counter is set
\* (count == 0) or incremented and the request goes on to the handler, also
\* when the command fails
RateLimitCount(q) ==
    /\ limiter.req[q].pc = "counted"
    /\ IF limiter.req[q].count >= Rate
         THEN /\ limiter' = [limiter EXCEPT !.req[q].pc = "rejected"]
              /\ UNCHANGED faults
         ELSE \E redisUp \in BOOLEAN :
                /\ redisUp \/ faults < MaxFaults
                /\ faults' = IF redisUp THEN faults ELSE faults + 1
                /\ limiter' = [limiter EXCEPT
                     !.req[q].pc = "handler",
                     !.admitted = @ + 1,
                     !.key = IF ~ redisUp THEN @
                             ELSE IF limiter.req[q].count = 0 THEN RateSet
                             ELSE RateIncr(@)]
    /\ UNCHANGED << pipelineVars, budget >>

\* the request is answered
RateLimitDone(q) ==
    /\ limiter.req[q].pc \in {"handler", "rejected"}
    /\ limiter' = [limiter EXCEPT !.req[q] = [pc |-> "idle", count |-> 0]]
    /\ UNCHANGED << pipelineVars, faults, budget >>

\* a second passes: the time to live of the counter runs down, at 0 the key
\* is gone and a new period begins
RateTick ==
    /\ limiter.key.present
    /\ limiter.key.ttl > 0
    /\ limiter' = IF limiter.key.ttl = 1
                    THEN [limiter EXCEPT !.key = NoLimiter.key, !.admitted = 0]
                    ELSE [limiter EXCEPT !.key.ttl = @ - 1]
    /\ UNCHANGED << pipelineVars, faults, budget >>

InitRate ==
    /\ position = 1 /\ queued = 0 /\ committed = 0
    /\ ctxDone = FALSE
    /\ outcome = [o \in DOMAIN Topic |-> "none"]
    /\ pc = [w \in Workers |-> "off"]
    /\ cur = [w \in Workers |-> NoMessage]
    /\ dedup = {} /\ events = << >> /\ insights = << >>
    /\ cache = EmptyCache
    /\ now = 1 /\ faults = 0
    /\ rg = IdleQuery /\ reaggLog = << >>
    /\ rd = [r \in Readers |-> IdleReader]
    /\ limiter = NoLimiter /\ budget = NoBudget

NextRate ==
    \/ \E q \in Requests : RateLimitGet(q)
    \/ \E q \in Requests : RateLimitCount(q)
    \/ \E q \in Requests : RateLimitDone(q)
    \/ RateTick

SpecRate == InitRate /\ [][NextRate]_vars

----------------------------------------------------------------------------
(* Budget tracking API: App.UpdateSpend for one campaign *)

\* the campaign of the campaigns table, and an id the table does not hold
Budgeted == "k1"
CampaignIds == {"k1", "k0"}
\* request.Spend
Spends == {-1, 1, 2}
MaxCalls == 3

\* the answer of UpdateSpend: the call is over, the transaction rolled back
Answer(u, error) ==
    [budget EXCEPT !.call[u].pc = "done", !.call[u].error = error,
                   !.lock = IF @ = u THEN "" ELSE @]

\* a database call of UpdateSpend: it succeeds or fails
DatabaseCall(ok) ==
    /\ ok \/ faults < MaxFaults
    /\ faults' = IF ok THEN faults ELSE faults + 1

\* the request is bound and validated, app.db.Beginx()
UpdateSpendBegin(u) ==
    /\ budget.call[u].pc = "idle"
    /\ budget.calls < MaxCalls
    /\ \E id \in CampaignIds, spend \in Spends, ok \in BOOLEAN :
         LET b == [budget EXCEPT !.calls = @ + 1,
                                 !.call[u] = [pc |-> "select", campaignId |-> id,
                                              spend |-> spend, currentSpend |-> 0,
                                              newSpend |-> 0, error |-> ""]]
         IN IF spend < 0
              THEN /\ ok /\ UNCHANGED faults
                   /\ budget' = [b EXCEPT !.call[u].pc = "done",
                                          !.call[u].error = "negative"]
              ELSE /\ DatabaseCall(ok)
                   /\ budget' = IF ok THEN b
                                ELSE [b EXCEPT !.call[u].pc = "done",
                                               !.call[u].error = "begin"]
    /\ UNCHANGED << pipelineVars, limiter >>

\* SELECT ... FROM campaigns WHERE id = $1 FOR UPDATE: waits for the row lock
UpdateSpendSelect(u) ==
    /\ budget.call[u].pc = "select"
    /\ \E ok \in BOOLEAN :
         /\ DatabaseCall(ok)
         /\ IF ~ ok THEN budget' = Answer(u, "fetch")
            ELSE IF budget.call[u].campaignId # Budgeted
              THEN budget' = Answer(u, "not found")
            ELSE /\ budget.lock = ""
                 /\ budget' = [budget EXCEPT !.lock = u, !.call[u].pc = "update"]
    /\ UNCHANGED << pipelineVars, limiter >>

UpdateSpendExecNoTransaction(u) ==
    /\ budget.call[u].pc = "update"
    /\ \E ok \in BOOLEAN :
         /\ DatabaseCall(ok)
         /\ budget' = IF ok THEN [budget EXCEPT !.call[u].pc = "commit",
                                                !.stored = @ + budget.call[u].spend]
                      ELSE Answer(u, "update")
    /\ UNCHANGED << pipelineVars, limiter >>
\* UPDATE campaigns SET spend = spend + $1 inside the transaction: nothing is
\* visible before the commit
UpdateSpendExec(u) ==
    /\ budget.call[u].pc = "update"
    /\ \E ok \in BOOLEAN :
         /\ DatabaseCall(ok)
         /\ budget' = IF ok THEN [budget EXCEPT !.call[u].pc = "commit"]
                      ELSE Answer(u, "update")
    /\ UNCHANGED << pipelineVars, limiter >>

\* tx.Commit(): the row gets spend + $1 and the lock is released
UpdateSpendCommit(u) ==
    /\ budget.call[u].pc = "commit"
    /\ \E ok \in BOOLEAN :
         /\ DatabaseCall(ok)
         /\ budget' = IF ok
                        THEN [budget EXCEPT !.stored = @ + budget.call[u].spend,
                                            !.total = @ + budget.call[u].spend,
                                            !.lock = "",
                                            !.call[u].pc = "load"]
                        ELSE Answer(u, "commit")
    /\ UNCHANGED << pipelineVars, limiter >>

\* app.campaignSpendsMap.Load(campaignID)
UpdateSpendLoad(u) ==
    /\ budget.call[u].pc = "load"
    /\ budget' = [budget EXCEPT !.call[u].pc = "store",
                                !.call[u].currentSpend = budget.cached]
    /\ UNCHANGED << pipelineVars, faults, limiter >>

\* app.campaignSpendsMap.Store(campaignID, currentSpend+request.Spend) and the
\* 200 answer with new_spend
UpdateSpendStore(u) ==
    /\ budget.call[u].pc = "store"
    /\ LET newSpend == budget.call[u].currentSpend + budget.call[u].spend
       IN budget' = [budget EXCEPT !.cached = newSpend,
                                   !.call[u].newSpend = newSpend,
                                   !.call[u].pc = "done"]
    /\ UNCHANGED << pipelineVars, faults, limiter >>

InitBudget ==
    /\ position = 1 /\ queued = 0 /\ committed = 0
    /\ ctxDone = FALSE
    /\ outcome = [o \in DOMAIN Topic |-> "none"]
    /\ pc = [w \in Workers |-> "off"]
    /\ cur = [w \in Workers |-> NoMessage]
    /\ dedup = {} /\ events = << >> /\ insights = << >>
    /\ cache = EmptyCache
    /\ now = 1 /\ faults = 0
    /\ rg = IdleQuery /\ reaggLog = << >>
    /\ rd = [r \in Readers |-> IdleReader]
    /\ limiter = NoLimiter /\ budget = NoBudget

\* the caller sends its next request
UpdateSpendAgain(u) ==
    /\ budget.call[u].pc = "done"
    /\ budget.calls < MaxCalls
    /\ budget' = [budget EXCEPT !.call[u] = NoBudget.call[u]]
    /\ UNCHANGED << pipelineVars, faults, limiter >>

NextBudget ==
    \/ \E u \in Callers : UpdateSpendBegin(u)
    \/ \E u \in Callers : UpdateSpendSelect(u)
    \/ \E u \in Callers : UpdateSpendExec(u)
    \/ \E u \in Callers : UpdateSpendCommit(u)
    \/ \E u \in Callers : UpdateSpendLoad(u)
    \/ \E u \in Callers : UpdateSpendStore(u)
    \/ \E u \in Callers : UpdateSpendAgain(u)

SpecBudget == InitBudget /\ [][NextBudget]_vars

----------------------------------------------------------------------------
(* Properties of the ingestion loop *)

\* the event of message o is one validateEvent accepts
ValidMessage(o) == Topic[o].ok /\ validateEventError(Topic[o].event) = "ok"
\* campaign_events holds a row for the event of message o
Appended(o) == \E i \in DOMAIN events : EventKey(events[i]) = EventKey(Topic[o].event)
\* the worker has consumed the whole partition and waits in ReadMessage
Drained == position = Len(Topic) + 1 /\ pc["w1"] = "read" /\ ~ ctxDone

\* C1: the offset committed for the consumer group covers no message whose
\* last ProcessEvent failed (validation or persistence): an offset is
\* committed only after ProcessEvent succeeded for its message.
C1_CommitOnlyAfterSuccess ==
    \A o \in DOMAIN Topic : o <= committed => outcome[o] # "failed"

\* C2: at-least-once. A message whose storeEvent failed stays uncommitted and
\* is processed again, so once the worker has consumed the partition and
\* every offset is committed, every valid message has been appended to
\* campaign_events.
C2_AtLeastOnce ==
    (Drained /\ committed = Len(Topic)) =>
        \A o \in DOMAIN Topic : ValidMessage(o) => Appended(o)

\* C3: the deduplication store gives no false positive: every key that is
\* marked processed belongs to an event that was appended to campaign_events.
C3_NoFalsePositive ==
    \A k \in dedup : \E i \in DOMAIN events : events[i].deduplicationKey = k

\* a key is marked while an earlier store of this run failed
C3_Witness ==
    /\ EvB.deduplicationKey \in dedup
    /\ outcome[1] = "failed"
    /\ \E i \in DOMAIN events : events[i].deduplicationKey = EvB.deduplicationKey

----------------------------------------------------------------------------
(* Properties of the aggregate table *)

\* the rows of campaign_events / campaign_insights once every part is merged
LogicalEvents == Final(events, "campaign_events", "processedAt")
WinningRows == Final(insights, "campaign_insights", "updatedAt")

BucketA == BucketOf(EvA)

\* the aggregate of the events of bucket b, each logical event counted once
Expected(b) ==
    Contents(DailyAggregationRow(b,
        SetToSeq({ e \in LogicalEvents : BucketOf(e) = b }), ZeroTime))

\* every ProcessEvent of the run has returned success, its event is stored
WorkersDone == \A w \in Workers : pc[w] = "returned" /\ cur[w].err = "nil"
BothStored == \A e \in {EvA, EvB} : \E r \in LogicalEvents : EventKey(r) = EventKey(e)

\* C4: idempotent ingestion. When the same event (EvA) is delivered to
\* ProcessEvent twice, campaign_events holds one logical row for it and every
\* aggregate row written for its bucket, by the view or by the
\* re-aggregation, carries its metrics exactly once.
C4_Idempotent ==
    (\A w \in Workers : cur[w].payload.event = EvA) =>
        /\ Cardinality({ e \in LogicalEvents : EventKey(e) = EventKey(EvA) }) <= 1
        /\ \A i \in DOMAIN insights :
              InsightKey(insights[i]) = BucketA =>
                 /\ insights[i].impressions = EvA.impressions
                 /\ insights[i].clicks = EvA.clicks
                 /\ insights[i].spend = EvA.spend
                 /\ insights[i].revenue = EvA.revenue

\* C5: incremental path. After the worker appended EvA (1000/50/50/100) and
\* EvB (500/25/25/50) in an undisturbed run, the row the insights query serves
\* for their bucket (from the merged table) carries the sums of both:
\* 1500, 75, 75, 150, CTR 0.05, CPC 1.0, ROAS 2.0.
C5_IncrementalSums ==
    (Drained /\ faults = 0 /\ Appended(1) /\ Appended(3)) =>
        LET rows == QueryInsights(SetToSeq(WinningRows), QueryDay1)
        IN /\ Len(rows) = 1
           /\ rows[1].impressions = 1500 /\ rows[1].clicks = 75
           /\ rows[1].spend = 75 /\ rows[1].revenue = 150
           /\ rows[1].ctr = << 1, 20 >> /\ rows[1].cpc = << 1, 1 >>
           /\ rows[1].roas = << 2, 1 >>

\* C6: convergence. Two events of one bucket (EvA, EvB) processed by two
\* workers concurrently: once both ProcessEvent calls have returned (and no
\* re-aggregation ran), the bucket's aggregate row is the aggregate of both
\* events, whatever the interleaving was.
C6_Convergence ==
    (WorkersDone /\ BothStored /\ rg.calls = 0) =>
        \A r \in WinningRows : InsightKey(r) = BucketA => Contents(r) = Expected(BucketA)

\* C7: re-aggregation concurrent with appends. Once both appends (EvA, EvB,
\* both inside the re-aggregated range) and the re-aggregation have
\* completed, the bucket's winning row (greatest updated_at) includes both.
C7_ReaggWithAppends ==
    (WorkersDone /\ BothStored /\ rg.calls = 1 /\ rg.pc = "idle"
       /\ Len(reaggLog) = 1) =>
        \A r \in WinningRows :
            InsightKey(r) = BucketA =>
               r.impressions = EvA.impressions + EvB.impressions

\* C8: re-aggregation convergence. Two TriggerReaggregation calls with the
\* same arguments over the same logical set of events write the same
\* aggregate rows (updated_at aside).
C8_ReaggDeterministic ==
    \A i, j \in DOMAIN reaggLog :
        ( /\ reaggLog[i].campaignId = reaggLog[j].campaignId
          /\ reaggLog[i].startDate = reaggLog[j].startDate
          /\ reaggLog[i].endDate = reaggLog[j].endDate
          /\ reaggLog[i].logical = reaggLog[j].logical )
        => reaggLog[i].rows = reaggLog[j].rows

\* the rows the re-aggregation insert of this step appended
Written == { insights'[i] : i \in (Len(insights) + 1) .. Len(insights') }
\* the buckets of the campaign whose date lies in [date(start), date(end)]
BucketsInRange ==
    { BucketOf(e) : e \in { e \in Range(events) :
          /\ e.campaignId = rg.campaignId
          /\ toDate(e.eventTime) >= toDate(rg.startDate)
          /\ toDate(e.eventTime) <= toDate(rg.endDate) } }

\* C9: the insert of TriggerReaggregation writes, for every bucket of the
\* campaign with a date in [date(start), date(end)], one row computed from all
\* the rows the table holds for that bucket, and no other row.
C9_ReaggFullBuckets ==
    [][ (rg.pc = "exec" /\ rg'.pc = "keys") =>
          /\ { InsightKey(r) : r \in Written } = BucketsInRange
          /\ \A r \in Written :
                Contents(r) = Contents(ReaggregationRow(InsightKey(r),
                                  InBucket(events, InsightKey(r)), ZeroTime)) ]_vars

----------------------------------------------------------------------------
(* Properties of the insights cache *)

\* C10: cache correctness. A GetCampaignInsights for campaign A that starts
\* after the n-th TriggerReaggregation for campaign A has returned, in a run
\* in which no call failed and no entry expired, returns rows read from
\* campaign_insights after that re-aggregation's insert, also when another
\* GetCampaignInsights was in flight during the re-aggregation.
C10_FreshAfterReagg ==
    \A r \in Readers :
        (rd[r].pc = "done" /\ faults = MaxFaults - 1) => rd[r].seen >= rd[r].began

----------------------------------------------------------------------------
(* Properties of validation *)

RequiredFields == << "campaignId", "platform", "eventTime", "deduplicationKey" >>
\* the value a required field has when the payload does not carry it
Absent(f) == CASE f = "campaignId" -> NilUUID
               [] f = "eventTime" -> ZeroTime
               [] OTHER -> ""
MissingFields(e) == { i \in DOMAIN RequiredFields :
                         e[RequiredFields[i]] = Absent(RequiredFields[i]) }
ErrorOf(i) == << "missing campaign ID", "missing platform", "missing event time",
                 "missing deduplication key" >>[i]
\* the event the message in the hands of w carries, as the producer sent it
RawOf(w) == cur[w].payload.event
Moved(w) == pc'[w] # pc[w]

\* C14: a step of ProcessEvent for an event that lacks campaignId, platform,
\* eventTime or deduplicationKey appends nothing to campaign_events, writes no
\* row of campaign_insights and marks no deduplication key, on a first
\* delivery and on a redelivery; no row of campaign_events lacks one of them.
C14_Rejected ==
    [][ /\ \A w \in Workers :
             (Moved(w) /\ cur[w].payload.ok /\ MissingFields(RawOf(w)) # {})
                => /\ events' = events /\ insights' = insights /\ dedup' = dedup
                   /\ pc'[w] = "returned"
        /\ \A i \in DOMAIN events' : MissingFields(events'[i]) = {} ]_vars

\* both workers held an event without a required field, each has returned its
\* validation error
C14_Witness ==
    /\ \A w \in Workers : /\ pc[w] = "returned"
                           /\ MissingFields(RawOf(w)) # {}
                           /\ cur[w].err = validateEventError(RawOf(w))
    /\ RawOf("w1") = RawOf("w2")
    /\ RawOf("w1") = EvNoTime

\* C15: when ProcessEvent reaches validateEvent (the key is not marked),
\* it returns the error of the first absent field in the order campaignId,
\* platform, eventTime, deduplicationKey, and goes on to storeEvent exactly
\* when none of the four is absent, whatever the numeric values.
C15_ValidationErrors ==
    [][ \A w \in Workers :
          (pc[w] = "process" /\ Moved(w) /\ cur[w].payload.ok
             /\ ~ (pc'[w] = "returned" /\ cur'[w].err = "nil"))
          => LET missing == MissingFields(RawOf(w)) IN
             IF missing = {}
               THEN pc'[w] = "store"
               ELSE /\ pc'[w] = "returned"
                    /\ cur'[w].err = ErrorOf(CHOOSE i \in missing :
                                               \A j \in missing : i <= j) ]_vars

\* an event without platform and event time was refused for its platform, an
\* event with negative metrics went on to storeEvent
C15_Witness ==
    /\ pc["w1"] = "returned" /\ RawOf("w1") = EvNoPlatform
    /\ cur["w1"].err = "missing platform"
    /\ pc["w2"] = "store" /\ RawOf("w2") = EvNeg

Metrics == {"impressions", "clicks", "conversions", "spend", "revenue"}
Optional == {"eventType", "region", "currency"}
DefaultOf(f) == CASE f = "eventType" -> "stats"
                  [] f = "region" -> "all"
                  [] f = "currency" -> "USD"
\* the workers whose event has passed validateEvent
Validated == { w \in Workers : pc[w] \in {"store", "mark"} }

\* C16: every row of campaign_events has impressions, clicks, conversions,
\* spend and revenue >= 0; a validated event carries 0 in each of these fields
\* that came in negative, the incoming value in the others, and its required
\* and set optional fields as they came in; an event with a negative value and
\* its required fields present is never refused by validateEvent.
C16_Clamping ==
    /\ \A i \in DOMAIN events : \A f \in Metrics : events[i][f] >= 0
    /\ \A w \in Validated :
          /\ \A f \in Metrics :
                cur[w].event[f] = IF RawOf(w)[f] < 0 THEN 0 ELSE RawOf(w)[f]
          /\ \A i \in DOMAIN RequiredFields :
                cur[w].event[RequiredFields[i]] = RawOf(w)[RequiredFields[i]]
          /\ \A f \in Optional : RawOf(w)[f] # "" => cur[w].event[f] = RawOf(w)[f]
    /\ \A w \in Workers :
          (pc[w] = "returned" /\ cur[w].payload.ok /\ MissingFields(RawOf(w)) = {})
             => cur[w].err \in {"nil", "store"}

\* the event with clicks = -5 is stored with clicks = 0, the event with every
\* metric negative is stored with zeros
C16_Witness ==
    /\ \E i \in DOMAIN events :
          /\ events[i].deduplicationKey = EvClk.deduplicationKey
          /\ events[i].clicks = 0 /\ events[i].impressions = 1000
    /\ \E i \in DOMAIN events :
          /\ events[i].deduplicationKey = EvNeg.deduplicationKey
          /\ events[i].spend = 0

\* C17: a validated event has eventType "stats", region "all", currency
\* "USD", receivedAt the time of validation and a generated id, different from
\* the id of the other event in hand, exactly in those of these fields that
\* came in unset, the incoming value in the others; validateEvent applied to
\* it again, at any time and with any generated id, returns it unchanged.
C17_Defaults ==
    \A w \in Validated :
        LET raw == RawOf(w)
            ev == cur[w].event
        IN /\ \A f \in Optional :
                 ev[f] = IF raw[f] = "" THEN DefaultOf(f) ELSE raw[f]
           /\ ev.receivedAt = IF raw.receivedAt = ZeroTime THEN ev.processedAt
                                                            ELSE raw.receivedAt
           /\ IF raw.id = NilUUID
                 THEN /\ ev.id \in GeneratedIds
                      /\ \A v \in Validated \ {w} : cur[v].event.id # ev.id
                 ELSE ev.id = raw.id
           /\ validateEventError(ev) = "ok"
           /\ \A t \in 1..MaxClock, newId \in GeneratedIds :
                 validateEvent(ev, t, newId) = ev

\* two events came in without id: one with every optional field unset, one
\* with every optional field set and received earlier
C17_Witness ==
    /\ Validated = Workers
    /\ RawOf("w1") = EvNeg /\ cur["w1"].event.region = "all"
    /\ cur["w1"].event.receivedAt = now
    /\ RawOf("w2") = EvEur /\ cur["w2"].event.currency = "EUR"
    /\ cur["w2"].event.receivedAt < now

\* the ratio columns a row must carry for its summed columns
RatioPolicy(r) ==
    /\ r.ctr = IF r.impressions = 0 THEN Zero ELSE Quot(r.clicks, r.impressions)
    /\ r.cpc = IF r.clicks = 0 THEN Zero ELSE Quot(r.spend, r.clicks)
    /\ r.conversionRate = IF r.clicks = 0 THEN Zero ELSE Quot(r.conversions, r.clicks)
    /\ r.cpa = IF r.conversions = 0 THEN Zero ELSE Quot(r.spend, r.conversions)
    /\ r.roas = IF r.spend = 0 THEN Zero ELSE Quot(r.revenue, r.spend)
Sums(r) == << r.impressions, r.clicks, r.conversions, r.spend, r.revenue >>
Ratios(r) == << r.ctr, r.cpc, r.cpa, r.roas, r.conversionRate >>
\* the rows the re-aggregations wrote
ReaggRows == UNION { reaggLog[i].rows : i \in DOMAIN reaggLog }

\* C18: every row of campaign_insights, written by the materialized view or
\* by TriggerReaggregation, has a ratio 0 where its denominator column is 0 and
\* the quotient of its summed columns otherwise; a row of the view and a row
\* of a re-aggregation with the same sums have the same five ratios.
C18_RatioPolicy ==
    /\ \A i \in DOMAIN insights : RatioPolicy(insights[i])
    /\ \A r \in ReaggRows : RatioPolicy(r)
    /\ \A i \in DOMAIN insights : \A r \in ReaggRows :
          Sums(insights[i]) = Sums(r) => Ratios(insights[i]) = Ratios(r)

\* a re-aggregation wrote a row with every sum 0 and a row with clicks and
\* conversions that differ; the view wrote, for the campaign that is not
\* re-aggregated, a row with impressions > 0 and clicks 0
C18_Witness ==
    /\ \E r \in ReaggRows : r.impressions = 0 /\ r.spend = 0
    /\ \E r \in ReaggRows : r.clicks > 0 /\ r.conversions > 0 /\ r.clicks # r.conversions
    /\ \E i \in DOMAIN insights :
          /\ insights[i].campaignId = CampB
          /\ insights[i].impressions > 0 /\ insights[i].clicks = 0

----------------------------------------------------------------------------
(* Properties of the tables' readers *)

\* the rows of campaign_events the re-aggregation query reads
ReaggregationReads ==
    SelectSeq(events, LAMBDA e : ReaggregationWhere(e, rg.campaignId,
                                                    rg.startDate, rg.endDate))

\* C19: the re-aggregation query reads, for every key (campaignId, eventTime,
\* deduplicationKey), one row of campaign_events, the one appended with the
\* greatest processedAt.
C19_LastWriteWins ==
    rg.pc = "exec" =>
        /\ \A i, j \in DOMAIN ReaggregationReads :
              EventKey(ReaggregationReads[i]) = EventKey(ReaggregationReads[j]) => i = j
        /\ Range(ReaggregationReads) \subseteq Final(events, "campaign_events", "processedAt")

\* C20: the rows GetCampaignInsights returns from campaign_insights hold one
\* row for each key (campaignId, date, platform, region), the one with the
\* greatest updatedAt.
C20_OneRowPerKey ==
    \A r \in Readers :
        (rd[r].pc \in {"cacheSet", "done"} /\ ~ rd[r].hit) =>
            \A i, j \in DOMAIN rd[r].rows :
                InsightKey(rd[r].rows[i]) = InsightKey(rd[r].rows[j]) => i = j

----------------------------------------------------------------------------
(* Properties of GetCampaignInsights *)

\* C11: a GetCampaignInsights whose cache read fails (an error, or a value
\* that cannot be decoded) goes on to query campaign_insights as on a miss and
\* returns the rows the query yields; when the cache write fails it returns
\* those rows with no error; it returns an error only from the query of
\* campaign_insights, the scan of its rows (rows.Scan, rows.Err) or the parse
\* of a campaign id.
C11_CacheNeverFails ==
    [][ \A r \in Readers :
          /\ (rd[r].pc = "cacheGet" /\ rd'[r].pc # "cacheGet" /\ rd'[r].cacheErr)
                => rd'[r].pc = "query" /\ rd'[r].err = "nil"
          /\ (rd[r].pc = "query" /\ rd'[r].pc \in {"cacheSet", "done"})
                => /\ rd'[r].rows = QueryInsights(insights, rd[r].params)
                   /\ rd'[r].err = "nil"
          /\ (rd[r].pc = "cacheSet" /\ rd'[r].pc # "cacheSet")
                => /\ rd'[r].pc = "done"
                   /\ rd'[r].rows = rd[r].rows
                   /\ rd'[r].err = "nil"
          /\ (rd'[r].err # "nil" /\ rd[r].err = "nil")
                => /\ rd[r].pc = "query" /\ rd'[r].pc = "failed"
                   /\ rd'[r].err \in QueryErrors
          /\ rd'[r].pc = "failed" => rd'[r].err # "nil" ]_vars

\* a reader whose cache read failed has returned, with no error, the rows of
\* the table
C11_Witness ==
    \E r \in Readers :
        /\ rd[r].pc = "done" /\ rd[r].cacheErr /\ ~ rd[r].hit
        /\ rd[r].err = "nil"
        /\ rd[r].rows = QueryInsights(insights, rd[r].params)
        /\ Len(rd[r].rows) > 0

\* C12: two GetCampaignInsights calls for which buildInsightsQuery returns the
\* same query with the same arguments use the same cache key.
C12_SameQuerySameKey ==
    \A r1, r2 \in Readers :
        (rd[r1].pc # "idle" /\ rd[r2].pc # "idle"
           /\ buildInsightsQueryArgs(rd[r1].params) = buildInsightsQueryArgs(rd[r2].params))
        => rd[r1].key = rd[r2].key

\* the cache key k belongs to a query for campaign camp
KeyOfCampaign(k, camp) == \E q \in Queries : q.campaignId = camp /\ getCacheKey(q) = k

\* C13: the KEYS step of TriggerReaggregation finds every cache entry of its
\* campaign and no other; when its DEL succeeds none of these entries is left,
\* every entry of another campaign keeps its value and the deduplication keys
\* are unchanged; when KEYS succeeds and finds nothing the campaign has no
\* entry.
C13_Invalidation ==
    [][ /\ (rg.pc = "keys" /\ rg'.pc = "del")
              => rg'.keys = { k \in DOMAIN cache : KeyOfCampaign(k, rg.campaignId) }
        /\ (rg.pc = "keys" /\ rg'.pc = "idle" /\ faults' = faults /\ ~ rg.reqDone)
              => \A k \in DOMAIN cache : ~ KeyOfCampaign(k, rg.campaignId)
        /\ (rg.pc = "del" /\ rg'.pc = "idle" /\ faults' = faults /\ ~ rg.reqDone)
              => /\ \A k \in rg.keys : k \notin DOMAIN cache'
                 /\ \A k \in DOMAIN cache :
                       ~ KeyOfCampaign(k, rg.campaignId)
                          => k \in DOMAIN cache' /\ cache'[k] = cache[k]
                 /\ dedup' = dedup ]_vars

\* with no failure, one reader cached rows of campaign A and the other rows
\* of campaign B; after the re-aggregation of campaign A only the entry of
\* campaign B is left
C13_Witness ==
    /\ faults = MaxFaults - 1
    /\ rg.pc = "idle" /\ rg.calls > 0
    /\ rd["r1"].pc = "done" /\ rd["r1"].params = QueryMetaAll
    /\ ~ rd["r1"].hit /\ Len(rd["r1"].rows) > 0
    /\ rd["r2"].pc = "done" /\ rd["r2"].params = QueryB
    /\ DOMAIN cache = { getCacheKey(QueryB) }

----------------------------------------------------------------------------
(* Properties of the worker loop *)

ValidationErrors == { ErrorOf(i) : i \in DOMAIN RequiredFields }

\* a step of Worker.Start or ProcessEvent for w, the end of the process apart
Stepped(w) ==
    Moved(w) /\ ~ (pc'[w] = "fetch" /\ cur'[w] = NoMessage /\ faults' = faults + 1)

\* C22: when the deduplication check returns an error ProcessEvent goes on as
\* for a key that is not marked: it validates the event and appends it; when
\* the mark returns an error after the append ProcessEvent returns nil; a nil
\* return takes Worker.Start to CommitMessages, which, when it works, hands
\* the offset to the reader; ProcessEvent returns no error other than those
\* of json.Unmarshal, validateEvent and storeEvent.
C22_BestEffort ==
    [][ \A w \in Workers :
          /\ (pc[w] = "process" /\ Stepped(w) /\ cur'[w].checkErr)
                => IF MissingFields(RawOf(w)) = {}
                     THEN pc'[w] = "store"
                     ELSE /\ pc'[w] = "returned"
                          /\ cur'[w].err = validateEventError(RawOf(w))
          /\ (pc[w] = "store" /\ pc'[w] = "mark")
                => events' = Append(events, cur[w].event)
          /\ (pc[w] = "mark" /\ Stepped(w))
                => /\ pc'[w] = "returned" /\ cur'[w].err = "nil"
                   /\ events' = events
                   /\ cur'[w].markErr => dedup' = dedup
          /\ (pc[w] = "returned" /\ Stepped(w) /\ cur[w].err = "nil" /\ cur[w].offset > 0)
                => /\ outcome'[cur[w].offset] \in {"ok", "commitFailed"}
                   /\ outcome'[cur[w].offset] = "ok" => queued' >= cur[w].offset
          /\ (Stepped(w) /\ pc'[w] = "returned")
                => cur'[w].err \in {"nil", "unmarshal", "store"} \cup ValidationErrors ]_vars

\* with the context live, the check and the mark of a message both returned
\* an error; its event is in campaign_events and its offset is committed
C22_Witness ==
    /\ ~ ctxDone /\ faults = MaxFaults
    /\ cur["w1"].checkErr /\ cur["w1"].markErr /\ cur["w1"].offset > 0
    /\ outcome[cur["w1"].offset] = "ok"
    /\ committed >= cur["w1"].offset
    /\ Appended(cur["w1"].offset)
    /\ cur["w1"].event.deduplicationKey \notin dedup

\* C24: an append in progress is never aborted by the cancellation: when
\* storeEvent returns an error, ClickHouse has failed.
C24_NoAbortedAppend ==
    [][ \A w \in Workers :
          (pc[w] = "store" /\ Stepped(w) /\ pc'[w] = "returned")
             => faults' = faults + 1 ]_vars

\* C25 (second half): Worker.Start hands processMessage no message whose
\* ReadMessage call began after the cancellation.
C25_NoFetchAfterCancel ==
    [][ \A w \in Workers :
          (pc[w] = "read" /\ Stepped(w) /\ pc'[w] = "process") => ~ cur[w].late ]_vars

\* C26: a step of ReadMessage that returns an error takes the loop to its
\* backoff and leaves the offsets handed to the reader, the committed offset,
\* campaign_events, campaign_insights and the deduplication keys unchanged;
\* the backoff leads to the top of the loop, which reads again unless the
\* context is cancelled; Worker.Start returns only when it is cancelled.
C26_FetchErrorNotFatal ==
    [][ \A w \in Workers :
          /\ (pc[w] = "read" /\ Stepped(w) /\ pc'[w] # "process")
                => /\ pc'[w] = "backoff"
                   /\ queued' = queued /\ committed' = committed
                   /\ events' = events /\ insights' = insights /\ dedup' = dedup
          /\ (pc[w] = "backoff" /\ Stepped(w)) => pc'[w] = "fetch"
          /\ (pc[w] = "fetch" /\ Stepped(w) /\ ~ ctxDone) => pc'[w] = "call"
          /\ (pc[w] = "call" /\ Stepped(w)) => pc'[w] = "read"
          /\ (Moved(w) /\ pc'[w] = "stopped") => pc[w] = "fetch" /\ ctxDone ]_vars

\* after a read error with the context live the worker is in its backoff,
\* nothing committed, nothing stored
C26_Witness ==
    /\ pc["w1"] = "backoff" /\ ~ ctxDone /\ faults = 1
    /\ position = 1 /\ queued = 0 /\ committed = 0
    /\ events = << >> /\ dedup = {}

\* the errors ProcessEvent returns for a payload it cannot decode or validate
RejectErrors == {"unmarshal"} \cup ValidationErrors

\* C27: when ProcessEvent returns the error of json.Unmarshal or of
\* validateEvent it has changed neither campaign_events, campaign_insights nor
\* the deduplication keys; Worker.Start then hands no offset to the reader
\* and goes to the top of its loop.
C27_RejectedNotCommitted ==
    [][ \A w \in Workers :
          /\ (pc[w] = "process" /\ Stepped(w) /\ cur'[w].err \in RejectErrors)
                => /\ pc'[w] = "returned"
                   /\ events' = events /\ insights' = insights /\ dedup' = dedup
          /\ (pc[w] = "process" /\ Stepped(w) /\ ~ cur[w].payload.ok)
                => cur'[w].err = "unmarshal"
          /\ (pc[w] = "returned" /\ Stepped(w) /\ cur[w].err \in RejectErrors)
                => /\ queued' = queued /\ committed' = committed
                   /\ outcome'[cur[w].offset] = "failed"
                   /\ pc'[w] = "fetch" ]_vars

\* the event without campaign id and the undecodable payload were both
\* refused and the loop stands at its next read
C27_Witness ==
    /\ outcome[2] = "failed" /\ outcome[4] = "failed"
    /\ pc["w1"] = "read" /\ position = Len(Topic) + 1
    /\ \A i \in DOMAIN events : events[i].deduplicationKey # EvBad.deduplicationKey

\* C28: the offset of a message that fails validation is never committed.
C28_NeverCommitted ==
    \A o \in DOMAIN Topic :
        (Topic[o].ok /\ validateEventError(Topic[o].event) # "ok") => committed < o

\* the rows of campaign_events after a complete merge, without processedAt,
\* and the winning rows of campaign_insights, without updatedAt
LogicalContent == { [e EXCEPT !.processedAt = ZeroTime] : e \in LogicalEvents }
AggregateContent == { Contents(r) : r \in WinningRows }

\* C29: a message whose ProcessEvent succeeded and whose CommitMessages
\* failed is processed again without effect: no step of its reprocessing
\* changes the logical content of campaign_events or an aggregate row.
C29_ReprocessingHarmless ==
    [][ \A w \in Workers :
          (Stepped(w) /\ pc[w] \in {"process", "store", "mark"} /\ cur[w].offset > 0
             /\ outcome[cur[w].offset] = "commitFailed")
          => /\ LogicalContent' = LogicalContent
             /\ AggregateContent' = AggregateContent ]_vars

\* C23: once started, TriggerReaggregation runs to completion whatever
\* happens to the request, provided the stores stay reachable: its INSERT
\* writes the aggregate rows, and the cache keys of the campaign are listed
\* and deleted.
C23_RunsToCompletion ==
    [][ /\ (rg.pc = "exec" /\ rg'.pc # "exec" /\ faults' = faults)
              => rg'.pc = "keys" /\ Len(reaggLog') = Len(reaggLog) + 1
        /\ (rg.pc = "keys" /\ rg'.pc # "keys" /\ faults' = faults
               /\ \E k \in DOMAIN cache : KeyOfCampaign(k, rg.campaignId))
              => rg'.pc = "del"
        /\ (rg.pc = "del" /\ rg'.pc # "del" /\ faults' = faults)
              => \A k \in rg.keys : k \notin DOMAIN cache' ]_vars

\* C30: validation precedes the deduplication check: the step ProcessEvent
\* takes for a decoded event that lacks a required field returns the error of
\* validateEvent, whatever the deduplication keys are.
C30_ValidationFirst ==
    [][ \A w \in Workers :
          (pc[w] = "process" /\ Moved(w) /\ cur[w].payload.ok
             /\ MissingFields(RawOf(w)) # {})
          => /\ pc'[w] = "returned"
             /\ cur'[w].err = validateEventError(RawOf(w)) ]_vars

\* rows in ascending order of date
AscendingByDate(rows) ==
    \A i, j \in DOMAIN rows : i < j => rows[i].date <= rows[j].date

\* C21: GetCampaignInsights returns exactly the rows of campaign_insights that
\* satisfy every supplied filter, in ascending order of date: the rows a
\* query returns are the matching rows of the table, and the rows a cache hit
\* returns satisfy the filters of the call that is answered.
C21_FilteredRows ==
    [][ \A r \in Readers :
          /\ (rd[r].pc = "query" /\ rd'[r].pc \in {"cacheSet", "done"})
                => /\ \A x \in Range(insights) :
                         buildInsightsQuery(x, rd[r].params) <=> x \in Range(rd'[r].rows)
                   /\ \A x \in Range(rd'[r].rows) : x \in Range(insights)
                   /\ AscendingByDate(rd'[r].rows)
          /\ (rd[r].pc = "cacheGet" /\ rd'[r].pc = "done")
                => /\ \A x \in Range(rd'[r].rows) : buildInsightsQuery(x, rd[r].params)
                   /\ AscendingByDate(rd'[r].rows) ]_vars

PeriodOf(granularity, date) ==
    CASE granularity = "weekly" -> date \div 7
      [] granularity = "monthly" -> date \div 31
      [] OTHER -> date

\* C32: for granularity weekly or monthly the rows GetCampaignInsights reads
\* from campaign_insights are sums over each week or month, so no two of them
\* belong to one campaign, platform, region and period; and a cache hit
\* returns rows cached under the granularity of the call.
C32_Granularity ==
    [][ \A r \in Readers :
          /\ (rd[r].pc = "query" /\ rd'[r].pc \in {"cacheSet", "done"}
                 /\ rd[r].params.granularity \in {"weekly", "monthly"})
                => \A i, j \in DOMAIN rd'[r].rows :
                      LET x == rd'[r].rows[i]
                          y == rd'[r].rows[j]
                      IN (/\ x.campaignId = y.campaignId /\ x.platform = y.platform
                          /\ x.region = y.region
                          /\ PeriodOf(rd[r].params.granularity, x.date)
                               = PeriodOf(rd[r].params.granularity, y.date)) => i = j
          /\ (rd[r].pc = "cacheGet" /\ rd'[r].pc = "done")
                => \E q \in Queries :
                      /\ getCacheKey(q) = rd[r].key
                      /\ q.granularity = rd[r].params.granularity ]_vars

\* C33: processedAt is set only after the append: the event of a ProcessEvent
\* call that is about to append, or whose append failed, carries no
\* processedAt, and every row of campaign_events carries one.
C33_ProcessedAtAfterAppend ==
    /\ \A w \in Workers :
          (pc[w] = "store" \/ (pc[w] = "returned" /\ cur[w].err = "store"))
             => cur[w].event.processedAt = ZeroTime
    /\ \A i \in DOMAIN events : events[i].processedAt # ZeroTime

\* C34: ProcessEvent skips a valid event as already processed only if an
\* event with its campaignId, eventTime and deduplicationKey has been appended
\* to campaign_events.
C34_SkipOnlyStored ==
    [][ \A w \in Workers :
          (pc[w] = "process" /\ Moved(w) /\ cur[w].payload.ok
             /\ MissingFields(RawOf(w)) = {}
             /\ pc'[w] = "returned" /\ cur'[w].err = "nil")
          => \E i \in DOMAIN events :
                /\ events[i].campaignId = RawOf(w).campaignId
                /\ events[i].eventTime = RawOf(w).eventTime
                /\ events[i].deduplicationKey = RawOf(w).deduplicationKey ]_vars

\* the parameters the cache key is meant to tell apart, dates by their day
KeyedParams(p) ==
    << p.campaignId, toDate(p.startDate), toDate(p.endDate), p.platform, p.region,
       p.granularity >>

\* C35: two GetCampaignInsights calls whose parameters differ in campaignId,
\* start date, end date, platform, region or granularity use different cache
\* keys.
C35_KeyInjective ==
    \A r1, r2 \in Readers :
        (rd[r1].pc # "idle" /\ rd[r2].pc # "idle"
           /\ KeyedParams(rd[r1].params) # KeyedParams(rd[r2].params))
        => rd[r1].key # rd[r2].key

----------------------------------------------------------------------------
(* Properties of the rate limiter and of the budget tracking API *)

\* C36: while redis answers, at most Rate requests of one key reach the handler
\* within one period of the counter.
C36_AtMostRate == faults = 0 => limiter.admitted <= Rate

\* C37: the counter of a key, when it exists, expires within the period.
C37_CounterExpires ==
    limiter.key.present => limiter.key.ttl \in 1..Period

\* C38: when no UpdateSpend call stands between its commit and its update of
\* the cache, the cached spend is the sum of the spends of the successful
\* calls.
C38_NoLostUpdate ==
    (\A u \in Callers : budget.call[u].pc \notin {"load", "store"})
        => budget.cached = budget.total

\* a step by which the call of u ends with an error
Fails(u) ==
    /\ budget.call[u].pc # "done" /\ budget'.call[u].pc = "done"
    /\ budget'.call[u].error # ""

\* C39: a step by which UpdateSpend answers an error leaves the stored and
\* the cached spend unchanged and is taken before the commit; the stored spend
\* changes only when a commit succeeds, and then grows by the requested
\* amount; a call that answers success has committed.
C39_Atomic ==
    [][ /\ \A u \in Callers :
             /\ Fails(u) => /\ budget'.stored = budget.stored
                            /\ budget'.cached = budget.cached
                            /\ budget.call[u].pc \notin {"load", "store"}
             /\ (budget.call[u].pc = "commit" /\ budget'.call[u].pc = "load")
                   => budget'.stored = budget.stored + budget.call[u].spend
             /\ (budget.call[u].pc = "store" /\ budget'.call[u].pc = "done")
                   => budget'.call[u].error = ""
        /\ budget'.stored # budget.stored
              => \E u \in Callers :
                    budget.call[u].pc = "commit" /\ budget'.call[u].pc = "load" ]_vars

\* one call was answered "Failed to commit update", another call succeeded,
\* and the stored spend is that of the successful call
C39_Witness ==
    /\ budget.call["u1"].pc = "done" /\ budget.call["u1"].error = "commit"
    /\ budget.call["u1"].spend = 2
    /\ budget.call["u2"].pc = "done" /\ budget.call["u2"].error = ""
    /\ budget.call["u2"].spend = 1
    /\ budget.stored = 1
====
